---- MODULE Spec2Model ----
(***************************************************************************)
(* Guardrail validation pipeline (src/guardrails) and the draft generator  *)
(* retry loop (src/engine/generator.py) of solvix-ai.                      *)
(*                                                                         *)
(* Python values that end up in prompts (expected / found evidence) are    *)
(* modelled by their str() text; None is the text "None".                  *)
(***************************************************************************)
EXTENDS Integers, Sequences, FiniteSets, TLC

\* ------------------------------------------------------------------------
\* Bounds of the model (not program constants)
\* ------------------------------------------------------------------------
\* longest guardrail list handed to GuardrailPipeline(guardrails=...)
MaxGuardrails == 2
\* most results a custom BaseGuardrail subclass returns from one validate()
MaxResults == 2
\* most matches of one pattern family in a draft
MaxMentions == 2
\* longest obligations list of a context
MaxObligations == 2

\* fallbacks counted by the llm_client
MaxFallbacks == 3

\* validate() calls in progress at once on the shared pipeline
MaxCalls == 2

\* ------------------------------------------------------------------------
\* base.py
\* ------------------------------------------------------------------------
GuardrailSeverity == {"CRITICAL", "HIGH", "MEDIUM", "LOW"}

None == "None"

\* Python truthiness of a value, on its str() text: None, 0, 0.0, [] and ""
\* are falsy.
Truthy(v) == v \notin {"None", "0", "0.0", "[]", ""}

GuardrailResult(passed, guardrail_name, severity, message, expected, found) ==
    [passed |-> passed, guardrail_name |-> guardrail_name, severity |-> severity,
     message |-> message, expected |-> expected, found |-> found]

\* should_block that lets HIGH failures through
result_should_block_critical_only(r) ==
    (~r.passed) /\ r.severity = "CRITICAL"

\* GuardrailResult.should_block
result_should_block(r) ==
    (~r.passed) /\ r.severity \in {"CRITICAL", "HIGH"}

\* BaseGuardrail(name, severity)
BaseGuardrail(name, severity) == [name |-> name, severity |-> severity]

\* BaseGuardrail._pass
guardrail_pass(g, message) ==
    GuardrailResult(TRUE, g.name, g.severity, message, None, None)

\* BaseGuardrail._fail
guardrail_fail(g, message, expected, found) ==
    GuardrailResult(FALSE, g.name, g.severity, message, expected, found)

GuardrailPipelineResult(passed_, block_, results_, retry_, blocking_) ==
    [all_passed |-> passed_, should_block |-> block_, results |-> results_,
     retry_suggested |-> retry_, blocking_guardrails |-> blocking_]

\* ------------------------------------------------------------------------
\* The five concrete guardrails and a custom one
\* ------------------------------------------------------------------------
FactualGroundingGuardrail == BaseGuardrail("factual_grounding", "CRITICAL")
NumericalConsistencyGuardrail == BaseGuardrail("numerical_consistency", "CRITICAL")
EntityVerificationGuardrail == BaseGuardrail("entity_verification", "CRITICAL")
TemporalConsistencyGuardrail == BaseGuardrail("temporal_consistency", "HIGH")
ContextualCoherenceGuardrail == BaseGuardrail("contextual_coherence", "MEDIUM")
\* a BaseGuardrail subclass of the remaining severity, supplied by a caller
CustomLowGuardrail == BaseGuardrail("custom_low", "LOW")

GuardrailPool ==
    {FactualGroundingGuardrail, NumericalConsistencyGuardrail,
     EntityVerificationGuardrail, TemporalConsistencyGuardrail,
     ContextualCoherenceGuardrail, CustomLowGuardrail}

\* GuardrailPipeline._get_default_guardrails
get_default_guardrails ==
    <<FactualGroundingGuardrail, NumericalConsistencyGuardrail,
      EntityVerificationGuardrail, TemporalConsistencyGuardrail,
      ContextualCoherenceGuardrail>>

\* ------------------------------------------------------------------------
\* CaseContext: the facts the guardrails' evidence depends on
\* ------------------------------------------------------------------------
\* obligations is either empty or the two invoices INV-12345 (1500.00, 30
\* days) and INV-12346 (2500.00, 26 days)
Contexts ==
    [has_obligations : BOOLEAN, active_dispute : BOOLEAN,
     hardship_indicated : BOOLEAN]

\* ------------------------------------------------------------------------
\* What one guardrail.validate(output, context) call can do.  The draft text
\* is arbitrary, so every outcome the guardrail's code can produce for the
\* given context is possible: a list of results, or an exception.
\* ------------------------------------------------------------------------
Raise == [kind |-> "raise", results |-> <<>>]
Return(rs) == [kind |-> "return", results |-> rs]

\* FactualGroundingGuardrail._validate_invoice_numbers
validate_invoice_numbers(ctx) ==
    LET g == FactualGroundingGuardrail
        valid_invoices == IF ctx.has_obligations
                          THEN "['INV-12345', 'INV-12346']" ELSE "[]"
    IN {guardrail_pass(g, "All invoice numbers validated"),
        guardrail_fail(g, "Invoice numbers not found in context",
                       valid_invoices, "['99999']")}

\* FactualGroundingGuardrail._validate_amounts
validate_amounts(ctx) ==
    LET g == FactualGroundingGuardrail
        valid_amounts == IF ctx.has_obligations
                         THEN "[1500.0, 2500.0, 4000.0]" ELSE "[0]"
    IN {guardrail_pass(g, "All monetary amounts validated"),
        guardrail_fail(g, "Amounts not found in context",
                       valid_amounts, "[99999.99]")}

\* FactualGroundingGuardrail.validate
FactualGroundingValidate(ctx) ==
    {<<inv, amt>> : inv \in validate_invoice_numbers(ctx),
                    amt \in validate_amounts(ctx)}

\* NumericalConsistencyGuardrail._validate_total_calculation
validate_total_calculation(ctx) ==
    LET g == NumericalConsistencyGuardrail
        actual_total == IF ctx.has_obligations THEN "4000.0" ELSE "0"
        stated_totals == IF ctx.has_obligations THEN {"0.0", "5000.0"}
                         ELSE {"5000.0"}
    IN {guardrail_pass(g, "Total calculations validated")} \cup
       {guardrail_fail(g, "Stated total does not match calculated total",
                       actual_total, stated) : stated \in stated_totals}

\* NumericalConsistencyGuardrail._validate_days_overdue
validate_days_overdue(ctx) ==
    LET g == NumericalConsistencyGuardrail
        valid_days == IF ctx.has_obligations THEN "[26, 30]" ELSE "[0]"
    IN {guardrail_pass(g, "Days overdue calculations validated"),
        guardrail_fail(g, "Days overdue not found in context", valid_days, "100")}

\* NumericalConsistencyGuardrail.validate
NumericalConsistencyValidate(ctx) ==
    {<<tot, days>> : tot \in validate_total_calculation(ctx),
                     days \in validate_days_overdue(ctx)}

\* ------------------------------------------------------------------------
\* entity.py: EntityVerificationGuardrail
\* ------------------------------------------------------------------------
MAX_RETRIES == 3
INITIAL_BACKOFF_SECONDS == 1

\* what one adjudicator call (llm_client.complete with the response schema)
\* does: it raises, or answers with an EntityValidationResult
AdjudicatorRaises == [kind |-> "raise"]

AdjudicatorAnswers(code_valid, name_valid) ==
    [kind |-> "answer", customer_code_valid |-> code_valid,
     party_name_valid |-> name_valid]

AdjudicatorOutcomes ==
    {AdjudicatorRaises} \cup
    {AdjudicatorAnswers(c, n) : c \in BOOLEAN, n \in BOOLEAN}

\* EntityVerificationGuardrail._validate_entities_with_llm, after the call
\* answered
validate_entities_with_llm(answer) ==
    LET g == EntityVerificationGuardrail
    IN <<IF answer.customer_code_valid
         THEN guardrail_pass(g, "customer_code_reason")
         ELSE guardrail_fail(g, "customer_code_reason", "CUST001", None),
         IF answer.party_name_valid
         THEN guardrail_pass(g, "party_name_reason")
         ELSE guardrail_fail(g, "party_name_reason", "Acme Corp", None)>>

\* retry loop that takes a failed last attempt for an empty success
RECURSIVE RetryAdjudicator_fail_open(_, _, _)
RetryAdjudicator_fail_open(adjudications, attempt, waits) ==
    IF attempt >= MAX_RETRIES
    THEN [results |-> <<>>, last_error |-> None, calls |-> attempt,
          waits |-> waits]
    ELSE LET a == adjudications[attempt + 1]
         IN IF a.kind = "answer"
            THEN [results |-> validate_entities_with_llm(a),
                  last_error |-> None, calls |-> attempt + 1, waits |-> waits]
            ELSE RetryAdjudicator_fail_open(adjudications, attempt + 1,
                     IF attempt < MAX_RETRIES - 1
                     THEN Append(waits, INITIAL_BACKOFF_SECONDS * (2 ^ attempt))
                     ELSE waits)

\* the retry loop sleeping after every failed attempt, the last included
RECURSIVE RetryAdjudicator_sleep_after_last(_, _, _)
RetryAdjudicator_sleep_after_last(adjudications, attempt, waits) ==
    IF attempt >= MAX_RETRIES
    THEN [results |-> <<>>, last_error |-> "last_error", calls |-> attempt,
          waits |-> waits]
    ELSE LET a == adjudications[attempt + 1]
         IN IF a.kind = "answer"
            THEN [results |-> validate_entities_with_llm(a),
                  last_error |-> None, calls |-> attempt + 1, waits |-> waits]
            ELSE RetryAdjudicator_sleep_after_last(adjudications, attempt + 1,
                     Append(waits, INITIAL_BACKOFF_SECONDS * (2 ^ attempt)))

\* the retry loop keeping a failing result for every failed attempt that
\* came before the successful one
RECURSIVE RetryAdjudicator_keeps_failures(_, _, _)
RetryAdjudicator_keeps_failures(adjudications, attempt, waits) ==
    IF attempt >= MAX_RETRIES
    THEN [results |-> <<>>, last_error |-> "last_error", calls |-> attempt,
          waits |-> waits]
    ELSE LET a == adjudications[attempt + 1]
             earlier == [k \in 1..attempt |->
                            guardrail_fail(EntityVerificationGuardrail,
                                           "Entity validation failed",
                                           "Valid LLM response", "last_error")]
         IN IF a.kind = "answer"
            THEN [results |-> earlier \o validate_entities_with_llm(a),
                  last_error |-> None, calls |-> attempt + 1, waits |-> waits]
            ELSE RetryAdjudicator_keeps_failures(adjudications, attempt + 1,
                     IF attempt < MAX_RETRIES - 1
                     THEN Append(waits, INITIAL_BACKOFF_SECONDS * (2 ^ attempt))
                     ELSE waits)

\* validate(), lines 102-122: the loop `for attempt in range(MAX_RETRIES)`;
\* adjudications[k] is what the k-th adjudicator call does if it is made
RECURSIVE RetryAdjudicator(_, _, _)
RetryAdjudicator(adjudications, attempt, waits) ==
    IF attempt >= MAX_RETRIES
    THEN [results |-> <<>>, last_error |-> "last_error", calls |-> attempt,
          waits |-> waits]
    ELSE LET a == adjudications[attempt + 1]
         IN IF a.kind = "answer"
            THEN [results |-> validate_entities_with_llm(a),
                  last_error |-> None, calls |-> attempt + 1, waits |-> waits]
            ELSE RetryAdjudicator(adjudications, attempt + 1,
                     IF attempt < MAX_RETRIES - 1
                     THEN Append(waits, INITIAL_BACKOFF_SECONDS * (2 ^ attempt))
                     ELSE waits)

\* the extracted_data keyword argument: absent, or an ExtractedData
NoExtractedData == [is_none |-> TRUE]

\* an Optional[date]: None, or a date as a day number
NoDate == [is_none |-> TRUE]
Date(day) == [is_none |-> FALSE, day |-> day]

ExtractedData(promise_date, redirect_email) ==
    [is_none |-> FALSE, promise_date |-> promise_date,
     redirect_email |-> redirect_email]

\* str.lower() on the e-mail addresses of the model
lower(e) ==
    CASE e = "Billing@Acme.com" -> "billing@acme.com"
      [] e = "FAKE@example.com" -> "fake@example.com"
      [] OTHER -> e

\* EntityVerificationGuardrail._validate_emails; found_emails is what the
\* e-mail pattern finds in the draft
validate_emails(found_emails, extracted_data) ==
    LET g == EntityVerificationGuardrail
        valid_emails == IF Truthy(extracted_data.redirect_email)
                        THEN {lower(extracted_data.redirect_email)} ELSE {}
        invalid_emails == {lower(e) : e \in found_emails} \ valid_emails
    IN IF found_emails = {}
       THEN guardrail_pass(g, "No email addresses to validate")
       ELSE IF valid_emails = {}
       THEN guardrail_fail(g, "Fabricated email addresses found",
                           "No emails or extracted redirect email", found_emails)
       ELSE IF invalid_emails # {}
       THEN guardrail_fail(g, "Unverified email addresses found",
                           valid_emails, invalid_emails)
       ELSE guardrail_pass(g, "Email addresses validated")

\* EntityVerificationGuardrail.validate
EntityVerification_validate(found_emails, adjudications, extracted_data) ==
    LET g == EntityVerificationGuardrail
        run == RetryAdjudicator(adjudications, 0, <<>>)
        llm == IF run.last_error # None
               THEN run.results \o
                    <<guardrail_fail(g, "Entity validation failed",
                                     "Valid LLM response", run.last_error)>>
               ELSE run.results
    IN IF extracted_data # NoExtractedData
       THEN llm \o <<validate_emails(found_emails, extracted_data)>>
       ELSE llm

\* what the MAX_RETRIES adjudicator calls of one validate() can do
AdjudicationRuns == [1..MAX_RETRIES -> AdjudicatorOutcomes]

\* EntityVerificationGuardrail.validate, called without extracted_data
EntityVerificationValidate ==
    {EntityVerification_validate({}, adjudications, NoExtractedData) :
        adjudications \in AdjudicationRuns}

\* TemporalConsistencyGuardrail._validate_due_dates
validate_due_dates(ctx) ==
    LET g == TemporalConsistencyGuardrail
        valid_dates == IF ctx.has_obligations
                       THEN "['2024-01-01', '2024-01-05']" ELSE "[]"
    IN {guardrail_pass(g, "Due dates validated"),
        guardrail_fail(g, "Due date not found in obligations", valid_dates,
                       "2024-03-01")}

\* TemporalConsistencyGuardrail.validate, called without extracted_data
TemporalConsistencyValidate(ctx) == {<<due>> : due \in validate_due_dates(ctx)}

\* ContextualCoherenceGuardrail._validate_dispute_awareness
validate_dispute_awareness ==
    LET g == ContextualCoherenceGuardrail
    IN {guardrail_pass(g, "Output appropriately handles dispute context"),
        guardrail_fail(g, "Output demands payment during active dispute without acknowledgment",
                       "Acknowledge dispute, avoid payment demands",
                       "['pay immediately']"),
        guardrail_fail(g, "Output does not acknowledge active dispute",
                       "Reference to dispute or investigation",
                       "No dispute acknowledgment")}

\* ContextualCoherenceGuardrail._validate_hardship_tone
validate_hardship_tone ==
    LET g == ContextualCoherenceGuardrail
    IN {guardrail_pass(g, "Output uses appropriate tone for hardship case"),
        guardrail_fail(g, "Output uses harsh tone for hardship case",
                       "Empathetic language, payment options",
                       "['legal action']"),
        guardrail_fail(g, "Output lacks empathetic language for hardship case",
                       "Understanding tone, payment options",
                       "No empathetic phrases detected")}

\* ContextualCoherenceGuardrail.validate (broken_promises_count = 0)
ContextualCoherenceValidate(ctx) ==
    LET g == ContextualCoherenceGuardrail
        dispute == IF ctx.active_dispute
                   THEN {<<r>> : r \in validate_dispute_awareness} ELSE {<<>>}
        hardship == IF ctx.hardship_indicated
                    THEN {<<r>> : r \in validate_hardship_tone} ELSE {<<>>}
        checks == {d \o h : d \in dispute, h \in hardship}
    IN {IF rs = <<>>
        THEN <<guardrail_pass(g, "No special context conditions to validate")>>
        ELSE rs : rs \in checks}

\* sequences of at most n results of a custom guardrail
RECURSIVE CustomResults(_, _)
CustomResults(g, n) ==
    IF n = 0 THEN {<<>>}
    ELSE LET shorter == CustomResults(g, n - 1)
             one == {guardrail_pass(g, "custom validation passed"),
                     guardrail_fail(g, "custom validation failed", None, None)}
         IN shorter \cup {Append(rs, r) : rs \in {s \in shorter : Len(s) = n - 1},
                                          r \in one}

\* BaseGuardrail.validate: the lists a guardrail can return for a context
ValidateReturns(g, ctx) ==
    CASE g = FactualGroundingGuardrail -> FactualGroundingValidate(ctx)
      [] g = NumericalConsistencyGuardrail -> NumericalConsistencyValidate(ctx)
      [] g = EntityVerificationGuardrail -> EntityVerificationValidate
      [] g = TemporalConsistencyGuardrail -> TemporalConsistencyValidate(ctx)
      [] g = ContextualCoherenceGuardrail -> ContextualCoherenceValidate(ctx)
      [] OTHER -> CustomResults(g, MaxResults)

\* every outcome of guardrail.validate(): a returned list or an exception
ValidateOutcomes(g, ctx) ==
    {Raise} \cup {Return(rs) : rs \in ValidateReturns(g, ctx)}

\* ------------------------------------------------------------------------
\* pipeline.py: GuardrailPipeline
\* ------------------------------------------------------------------------
severity_order(s) ==
    CASE s = "CRITICAL" -> 0
      [] s = "HIGH" -> 1
      [] s = "MEDIUM" -> 2
      [] s = "LOW" -> 3

\* list.sort(key=...) is stable: insert each element after the elements
\* whose key is not greater
RECURSIVE InsertByKey(_, _)
InsertByKey(sorted, g) ==
    IF Len(sorted) = 0 THEN <<g>>
    ELSE IF severity_order(Head(sorted).severity) <= severity_order(g.severity)
         THEN <<Head(sorted)>> \o InsertByKey(Tail(sorted), g)
         ELSE <<g>> \o sorted

RECURSIVE SortBySeverity(_)
SortBySeverity(gs) ==
    IF Len(gs) = 0 THEN <<>>
    ELSE InsertByKey(SortBySeverity(SubSeq(gs, 1, Len(gs) - 1)), gs[Len(gs)])

\* the guardrails argument of GuardrailPipeline(): None, or a list
NoList == [is_none |-> TRUE]
GivenList(gs) == [is_none |-> FALSE, list |-> gs]

\* constructor that keeps the list in the order supplied
PipelineInit_unsorted(supplied_guardrails) ==
    IF supplied_guardrails = NoList THEN get_default_guardrails
    ELSE supplied_guardrails.list

\* GuardrailPipeline.__init__
PipelineInit(supplied_guardrails) ==
    SortBySeverity(IF supplied_guardrails = NoList THEN get_default_guardrails
                   ELSE supplied_guardrails.list)

\* no GuardrailPipelineResult (Python None)
NoVerdict == [is_none |-> TRUE]

\* the locals of validate() while it runs; returned is set by a return
ValidateLocals ==
    [all_results |-> <<>>, blocking_guardrails |-> <<>>, should_block |-> FALSE,
     returned |-> FALSE, value |-> NoVerdict]

\* a call that goes on with the lists the previous call left behind
FreshLocals_kept(st) == [st EXCEPT !.returned = FALSE, !.value = NoVerdict]

\* validate(), lines 86-88: each call creates its own all_results,
\* blocking_guardrails and should_block
FreshLocals(st) == ValidateLocals

\* the loop over one guardrail's results without the fail-fast return
RECURSIVE CheckBlocking_no_return(_, _, _, _, _)
CheckBlocking_no_return(st, g, results, i, ff) ==
    IF i > Len(results) THEN st
    ELSE IF result_should_block(results[i])
         THEN CheckBlocking_no_return(
                  [st EXCEPT !.should_block = TRUE,
                             !.blocking_guardrails = Append(@, g.name)],
                  g, results, i + 1, ff)
         ELSE CheckBlocking_no_return(st, g, results, i + 1, ff)

\* validate(), lines 96-113: the loop over one guardrail's results
RECURSIVE CheckBlocking(_, _, _, _, _)
CheckBlocking(st, g, results, i, ff) ==
    IF i > Len(results) THEN st
    ELSE LET result == results[i]
         IN IF result_should_block(result)
            THEN LET st1 == [st EXCEPT !.should_block = TRUE,
                                       !.blocking_guardrails = Append(@, g.name)]
                 IN IF ff /\ result.severity = "CRITICAL"
                    THEN [st1 EXCEPT !.returned = TRUE,
                                     !.value = GuardrailPipelineResult(
                                         FALSE, TRUE, st1.all_results, TRUE,
                                         st1.blocking_guardrails)]
                    ELSE CheckBlocking(st1, g, results, i + 1, ff)
            ELSE CheckBlocking(st, g, results, i + 1, ff)

\* loop iteration whose except branch reports the fault at the guardrail's
\* own severity and does not record the guardrail as blocking
LoopBody_fault_at_own_severity(st, g, outcome, ff) ==
    IF outcome.kind = "raise"
    THEN [st EXCEPT !.all_results = Append(@, GuardrailResult(FALSE, g.name,
                                       g.severity, "Guardrail execution error",
                                       None, None)),
                    !.should_block = result_should_block(
                                       guardrail_fail(g, "", None, None)) \/ @]
    ELSE CheckBlocking([st EXCEPT !.all_results = @ \o outcome.results],
                       g, outcome.results, 1, ff)

\* loop iteration whose except branch sets should_block without recording
\* the guardrail's name
LoopBody_fault_unlisted(st, g, outcome, ff) ==
    IF outcome.kind = "raise"
    THEN [st EXCEPT !.all_results = Append(@, GuardrailResult(FALSE, g.name,
                                       "HIGH", "Guardrail execution error",
                                       None, None)),
                    !.should_block = TRUE]
    ELSE CheckBlocking([st EXCEPT !.all_results = @ \o outcome.results],
                       g, outcome.results, 1, ff)

\* validate(), lines 90-128: one iteration of the loop over the guardrails
LoopBody(st, g, outcome, ff) ==
    IF outcome.kind = "raise"
    THEN [st EXCEPT !.all_results = Append(@, GuardrailResult(FALSE, g.name,
                                       "HIGH", "Guardrail execution error",
                                       None, None)),
                    !.should_block = TRUE,
                    !.blocking_guardrails = Append(@, g.name)]
    ELSE CheckBlocking([st EXCEPT !.all_results = @ \o outcome.results],
                       g, outcome.results, 1, ff)

\* normal return that takes all_passed to mean "nothing blocked"
NormalReturn_not_blocked(st) ==
    GuardrailPipelineResult(~st.should_block, st.should_block, st.all_results,
                            st.should_block /\ Len(st.blocking_guardrails) <= 2,
                            st.blocking_guardrails)

\* validate(), lines 130-138: the normal return
NormalReturn(st) ==
    LET all_passed_ == \A i \in 1..Len(st.all_results) : st.all_results[i].passed
    IN GuardrailPipelineResult(all_passed_, st.should_block, st.all_results,
                               st.should_block /\ Len(st.blocking_guardrails) <= 2,
                               st.blocking_guardrails)

\* ------------------------------------------------------------------------
\* State
\* ------------------------------------------------------------------------
VARIABLES
    supplied,       \* the list handed to GuardrailPipeline(), or None
    guardrails,     \* self.guardrails
    context,        \* the CaseContext of the call
    pc,             \* position of validate(): "idle", "loop", "returned"
    fail_fast,      \* validate() argument
    idx,            \* position of the loop over self.guardrails
    locals,         \* all_results, blocking_guardrails, should_block
    invoked,        \* guardrails whose validate() was called, with outcome
    verdict         \* the GuardrailPipelineResult returned, or None

pvars == <<supplied, guardrails, context, pc, fail_fast, idx, locals, invoked,
           verdict>>

\* DraftGenerator.generate(): its position, its locals, what it returned
VARIABLES
    gpc,                \* "idle", "loop", "awaiting", "done", "raised"
    attempt,            \* loop variable of `for attempt in range(...)`
    guardrail_feedback, \* lines of the feedback text; <<>> for None and ""
    user_prompt,        \* prompt of the llm_client.complete() call in flight
    result,             \* the parsed DraftGenerationLLMResponse
    guardrail_result,   \* the verdict of the last pipeline run
    response,           \* the GenerateDraftResponse returned, or the error
    llm_calls,          \* calls made to llm_client.complete()
    validate_calls,     \* calls made to guardrail_pipeline.validate()
    validated_output    \* output argument of the last of these calls

gvars == <<gpc, attempt, guardrail_feedback, user_prompt, result,
           guardrail_result, response, llm_calls, validate_calls,
           validated_output>>

\* one guardrail method called on its own: its position, its arguments, the
\* value it returned and the verdict of a pipeline holding that guardrail
VARIABLES
    cpc,        \* "idle", "returned"
    call,       \* the method called and its arguments
    returned,   \* the GuardrailResult or list of results returned
    piped       \* verdict of GuardrailPipeline([guardrail]).validate(...)

cvars == <<cpc, call, returned, piped>>

\* a second validate() call on the same pipeline with the same arguments:
\* the first call's arguments, guardrail answers and verdict
VARIABLES
    previous    \* the first run, or None

rvars == <<previous>>

\* validate() calls in progress at the same time on the shared pipeline:
\* each call's own frame (arguments, locals, position, return value)
VARIABLES
    frames      \* call number -> frame

fvars == <<frames>>

\* the module-level llm_client = LLMProviderWithFallback() and its calls
VARIABLES
    settings,       \* which providers have an API key configured
    llm_client,     \* the attributes of the LLMProviderWithFallback
    completion      \* the last complete() call: what the providers did, result

lvars == <<settings, llm_client, completion>>

vars == <<pvars, gvars, cvars, rvars, fvars, lvars>>

NoCall == [op |-> "none"]

\* no guardrail method has been called on its own
ChecksIdle ==
    /\ cpc = "idle"
    /\ call = NoCall
    /\ returned = <<>>
    /\ piped = NoVerdict

NoRun == [is_none |-> TRUE]

\* validate() has not been called a second time
RepeatIdle == previous = NoRun

\* no validate() call is in progress on the shared pipeline
ConcurrentIdle == frames = <<>>

NoProvider == [is_none |-> TRUE]
NoCompletion == [is_none |-> TRUE]

\* LLMProviderWithFallback.__init__: both providers are created on first use
LLMProviderWithFallback(primary_provider, fallback_provider) ==
    [primary_provider_name |-> primary_provider,
     fallback_provider_name |-> fallback_provider,
     primary |-> NoProvider, fallback |-> NoProvider, fallback_count |-> 0]

\* the llm_client as it is when the module is imported
LLMIdle ==
    /\ settings = [gemini_api_key |-> TRUE, openai_api_key |-> TRUE]
    /\ llm_client = LLMProviderWithFallback("gemini", "openai")
    /\ completion = NoCompletion

NoDraft == [is_none |-> TRUE]
NoResponse == [is_none |-> TRUE]

\* generate() has not been called
GeneratorIdle ==
    /\ gpc = "idle"
    /\ attempt = 0
    /\ guardrail_feedback = <<>>
    /\ user_prompt = <<>>
    /\ result = NoDraft
    /\ guardrail_result = NoVerdict
    /\ response = NoResponse
    /\ llm_calls = 0
    /\ validate_calls = 0
    /\ validated_output = 0

RECURSIVE SeqsUpTo(_, _)
\* sequences of elements of S of length 0..n
SeqsUpTo(S, n) ==
    IF n = 0 THEN {<<>>}
    ELSE LET shorter == SeqsUpTo(S, n - 1)
         IN shorter \cup
            {Append(s, x) : s \in {t \in shorter : Len(t) = n - 1},
                            x \in S}

NoRepeat(s) == \A i, j \in 1..Len(s) : i # j => s[i] # s[j]

SuppliedLists ==
    {NoList} \cup {GivenList(s) : s \in {t \in SeqsUpTo(GuardrailPool, MaxGuardrails) :
                                            NoRepeat(t)}}

Init ==
    /\ supplied \in SuppliedLists
    /\ guardrails = PipelineInit(supplied)
    /\ context \in Contexts
    /\ pc = "idle"
    /\ fail_fast = TRUE
    /\ idx = 1
    /\ locals = ValidateLocals
    /\ invoked = <<>>
    /\ verdict = NoVerdict
    /\ GeneratorIdle
    /\ ChecksIdle
    /\ RepeatIdle
    /\ ConcurrentIdle
    /\ LLMIdle

\* validate() is called: lines 86-88
ValidateCall ==
    /\ pc \in {"idle", "returned"}
    /\ \E ff \in BOOLEAN : fail_fast' = ff
    /\ pc' = "loop"
    /\ idx' = 1
    /\ locals' = FreshLocals(locals)
    /\ invoked' = <<>>
    /\ verdict' = NoVerdict
    /\ UNCHANGED <<supplied, guardrails, context>>
    /\ UNCHANGED <<gvars, cvars, rvars, fvars, lvars>>

\* one iteration of `for guardrail in self.guardrails`, lines 90-128, in
\* which the guardrail does `outcome`
InvokeStep(outcome) ==
    /\ LET g == guardrails[idx]
           st == LoopBody(locals, g, outcome, fail_fast)
       IN /\ invoked' = Append(invoked, [guardrail |-> g, outcome |-> outcome])
          /\ locals' = st
          /\ IF st.returned
             THEN /\ pc' = "returned"
                  /\ verdict' = st.value
                  /\ idx' = idx
             ELSE /\ pc' = "loop"
                  /\ verdict' = verdict
                  /\ idx' = idx + 1
    /\ UNCHANGED <<supplied, guardrails, context, fail_fast>>
    /\ UNCHANGED <<gvars, cvars, rvars, fvars, lvars>>

\* the next guardrail is invoked and returns or raises
InvokeGuardrail ==
    /\ pc = "loop"
    /\ idx <= Len(guardrails)
    /\ \E outcome \in ValidateOutcomes(guardrails[idx], context) :
          InvokeStep(outcome)

\* the loop is exhausted: lines 130-138
ValidateReturn ==
    /\ pc = "loop"
    /\ idx > Len(guardrails)
    /\ verdict' = NormalReturn(locals)
    /\ pc' = "returned"
    /\ UNCHANGED <<supplied, guardrails, context, fail_fast, idx, locals, invoked>>
    /\ UNCHANGED <<gvars, cvars, rvars, fvars, lvars>>

Next ==
    \/ ValidateCall
    \/ InvokeGuardrail
    \/ ValidateReturn

Spec == Init /\ [][Next]_vars

\* ------------------------------------------------------------------------
\* validate() called twice on one pipeline with the same draft, context and
\* extras, the guardrails answering the second time as they did the first
\* ------------------------------------------------------------------------
\* the second call is made; the first run is remembered
ValidateAgain ==
    /\ pc = "returned"
    /\ previous = NoRun
    /\ previous' = [fail_fast |-> fail_fast, invoked |-> invoked,
                    verdict |-> verdict]
    /\ pc' = "loop"
    /\ idx' = 1
    /\ locals' = FreshLocals(locals)
    /\ invoked' = <<>>
    /\ verdict' = NoVerdict
    /\ UNCHANGED <<supplied, guardrails, context, fail_fast>>
    /\ UNCHANGED <<gvars, cvars, fvars, lvars>>

\* in the second run the guardrail at idx answers as in the first run
InvokeGuardrailAgain ==
    /\ pc = "loop"
    /\ previous # NoRun
    /\ idx <= Len(guardrails)
    /\ idx <= Len(previous.invoked)
    /\ previous.invoked[idx].guardrail = guardrails[idx]
    /\ InvokeStep(previous.invoked[idx].outcome)

NextTwice ==
    \/ (pc = "idle" /\ ValidateCall)
    \/ (previous = NoRun /\ InvokeGuardrail)
    \/ ValidateReturn
    \/ ValidateAgain
    \/ InvokeGuardrailAgain

SpecTwice == Init /\ [][NextTwice]_vars

\* ------------------------------------------------------------------------
\* engine/generator.py: DraftGenerator
\* ------------------------------------------------------------------------
MAX_GUARDRAIL_RETRIES == 2

\* validate() as one call: every verdict it can return from the locals st
\* with the guardrails gs[i..] still to run
RECURSIVE ValidateRuns(_, _, _, _, _)
ValidateRuns(st, gs, i, ctx, ff) ==
    IF i > Len(gs) THEN {NormalReturn(st)}
    ELSE UNION {LET st1 == LoopBody(st, gs[i], outcome, ff)
                IN IF st1.returned THEN {st1.value}
                   ELSE ValidateRuns(st1, gs, i + 1, ctx, ff)
                : outcome \in ValidateOutcomes(gs[i], ctx)}

\* GuardrailPipeline.validate(output, context, fail_fast)
PipelineValidate(gs, ctx, ff) == ValidateRuns(ValidateLocals, gs, 1, ctx, ff)

\* the module-level guardrail_pipeline = GuardrailPipeline()
guardrail_pipeline == PipelineInit(NoList)

\* DraftGenerator._build_guardrail_feedback, lines of the text it joins
RECURSIVE FailureLines(_)
FailureLines(failures) ==
    IF Len(failures) = 0 THEN <<>>
    ELSE LET failure == Head(failures)
         IN <<<<"-", failure.guardrail_name, failure.message>>>>
            \o (IF Truthy(failure.expected)
                THEN <<<<"Expected", failure.expected>>>> ELSE <<>>)
            \o (IF Truthy(failure.found)
                THEN <<<<"Found", failure.found>>>> ELSE <<>>)
            \o FailureLines(Tail(failures))

build_guardrail_feedback(gr) ==
    LET failures == SelectSeq(gr.results, LAMBDA r : ~r.passed)
    IN IF Len(failures) = 0 THEN <<>>
       ELSE <<<<"CRITICAL: Your previous draft had validation errors">>>>
            \o FailureLines(failures)
            \o <<<<"Ensure the new draft addresses ALL validation issues">>>>

base_user_prompt == <<<<"GENERATE_DRAFT_USER">>>>

\* generate(), lines 125-127: the prompt of an attempt
BuildUserPrompt(feedback) ==
    IF Len(feedback) > 0 THEN base_user_prompt \o feedback ELSE base_user_prompt

\* loop that retries only a blocking verdict
LoopDecision_on_should_block(att, gr) ==
    IF ~gr.should_block THEN "break"
    ELSE IF att >= MAX_GUARDRAIL_RETRIES THEN "break"
    ELSE "continue"

\* generate(), lines 177-195: what the loop does with a verdict
LoopDecision(att, gr) ==
    IF gr.all_passed THEN "break"
    ELSE IF att >= MAX_GUARDRAIL_RETRIES THEN "break"
    ELSE "continue"

RECURSIVE GCD(_, _)
GCD(a, b) == IF b = 0 THEN a ELSE GCD(b, a % b)

\* the float a / b, kept as a fraction in lowest terms
Ratio(a, b) == [num |-> a \div GCD(a, b), den |-> b \div GCD(a, b)]

\* validation summary that reports a verdict as passed unless it blocks and
\* scores accuracy over the blocking checks only
BuildGuardrailValidation_blocking_only(gr) ==
    LET total_checks == Len(gr.results)
        blocked == Len(gr.blocking_guardrails)
    IN [all_passed |-> ~gr.should_block,
        guardrails_run |-> total_checks,
        guardrails_passed |-> total_checks - blocked,
        blocking_failures |-> gr.blocking_guardrails,
        warnings |-> <<>>,
        factual_accuracy |-> IF total_checks > 0 /\ blocked <= total_checks
                             THEN Ratio(total_checks - blocked, total_checks)
                             ELSE Ratio(1, 1)]

\* generate(), lines 202-221: GuardrailValidation of a verdict
BuildGuardrailValidation(gr) ==
    LET total_checks == Len(gr.results)
        passed_checks == Cardinality({i \in 1..Len(gr.results) : gr.results[i].passed})
        warned == SelectSeq(gr.results,
                            LAMBDA r : (~r.passed) /\ r.severity = "MEDIUM")
    IN [all_passed |-> gr.all_passed,
        guardrails_run |-> total_checks,
        guardrails_passed |-> passed_checks,
        blocking_failures |-> gr.blocking_guardrails,
        warnings |-> [i \in 1..Len(warned) |-> warned[i].guardrail_name],
        factual_accuracy |-> IF total_checks > 0
                             THEN Ratio(passed_checks, total_checks)
                             ELSE Ratio(1, 1)]

\* generate(), lines 235-242
GenerateDraftResponse(draft, gr) ==
    [kind |-> "GenerateDraftResponse", body |-> draft.body,
     guardrail_validation |-> BuildGuardrailValidation(gr)]

\* generate() is called: lines 117-121
GenerateCall ==
    /\ gpc = "idle"
    /\ gpc' = "loop"
    /\ attempt' = 0
    /\ guardrail_feedback' = <<>>
    /\ result' = NoDraft
    /\ guardrail_result' = NoVerdict
    /\ UNCHANGED <<user_prompt, response, llm_calls, validate_calls,
                   validated_output>>
    /\ UNCHANGED <<pvars, cvars, rvars, fvars, lvars>>

\* top of an attempt up to the await: lines 123-138
SendPrompt ==
    /\ gpc = "loop"
    /\ user_prompt' = BuildUserPrompt(guardrail_feedback)
    /\ llm_calls' = llm_calls + 1
    /\ gpc' = "awaiting"
    /\ UNCHANGED <<attempt, guardrail_feedback, result, guardrail_result,
                   response, validate_calls, validated_output>>
    /\ UNCHANGED <<pvars, cvars, rvars, fvars, lvars>>

\* llm_client.complete() raises: the exception leaves generate()
LLMFails ==
    /\ gpc = "awaiting"
    /\ gpc' = "raised"
    /\ response' = [kind |-> "LLMError"]
    /\ user_prompt' = <<>>
    /\ UNCHANGED <<attempt, guardrail_feedback, result, guardrail_result,
                   llm_calls, validate_calls, validated_output>>
    /\ UNCHANGED <<pvars, cvars, rvars, fvars, lvars>>

\* an unusable response answered by another attempt instead of an error
ResponseInvalid_retried ==
    /\ gpc = "awaiting"
    /\ attempt < MAX_GUARDRAIL_RETRIES
    /\ attempt' = attempt + 1
    /\ gpc' = "loop"
    /\ user_prompt' = <<>>
    /\ UNCHANGED <<guardrail_feedback, result, guardrail_result, response,
                   llm_calls, validate_calls, validated_output>>
    /\ UNCHANGED <<pvars, cvars, rvars, fvars, lvars>>

\* the content is not extractable JSON or fails the schema: lines 144-169
ResponseInvalid ==
    /\ gpc = "awaiting"
    /\ \E message \in {"LLM returned invalid JSON",
                       "LLM returned invalid draft generation response"} :
          response' = [kind |-> "LLMResponseInvalidError", message |-> message]
    /\ gpc' = "raised"
    /\ user_prompt' = <<>>
    /\ UNCHANGED <<attempt, guardrail_feedback, result, guardrail_result,
                   llm_calls, validate_calls, validated_output>>
    /\ UNCHANGED <<pvars, cvars, rvars, fvars, lvars>>

\* a parsed draft: lines 163-195, and lines 197-242 when the loop ends
ResponseValidated ==
    /\ gpc = "awaiting"
    /\ LET draft == [subject |-> "subject", body |-> llm_calls]
       IN \E gr \in PipelineValidate(guardrail_pipeline, context, TRUE) :
            /\ result' = draft
            /\ guardrail_result' = gr
            /\ validate_calls' = validate_calls + 1
            /\ validated_output' = draft.body
            /\ IF LoopDecision(attempt, gr) = "continue"
               THEN /\ guardrail_feedback' = build_guardrail_feedback(gr)
                    /\ IF attempt + 1 < MAX_GUARDRAIL_RETRIES + 1
                       THEN /\ attempt' = attempt + 1
                            /\ gpc' = "loop"
                            /\ response' = response
                       ELSE \* range() is exhausted
                            /\ attempt' = attempt
                            /\ response' = GenerateDraftResponse(draft, gr)
                            /\ gpc' = "done"
               ELSE /\ response' = GenerateDraftResponse(draft, gr)
                    /\ gpc' = "done"
                    /\ UNCHANGED <<attempt, guardrail_feedback>>
    /\ user_prompt' = <<>>
    /\ UNCHANGED llm_calls
    /\ UNCHANGED <<pvars, cvars, rvars, fvars, lvars>>

InitGen ==
    /\ supplied = NoList
    /\ guardrails = guardrail_pipeline
    /\ context \in Contexts
    /\ pc = "idle"
    /\ fail_fast = TRUE
    /\ idx = 1
    /\ locals = ValidateLocals
    /\ invoked = <<>>
    /\ verdict = NoVerdict
    /\ GeneratorIdle
    /\ ChecksIdle
    /\ RepeatIdle
    /\ ConcurrentIdle
    /\ LLMIdle

NextGen ==
    \/ GenerateCall
    \/ SendPrompt
    \/ LLMFails
    \/ ResponseInvalid
    \/ ResponseValidated

SpecGen == InitGen /\ [][NextGen]_vars

\* ------------------------------------------------------------------------
\* The guardrails' methods, each called on its own with a draft, a context
\* and extras.  A draft is given by what the method's patterns find in it.
\* ------------------------------------------------------------------------
\* GuardrailPipeline([g]).validate(): the verdict when g does `outcome`
SinglePipelineValidate(g, outcome, ff) ==
    LET st == LoopBody(ValidateLocals, g, outcome, ff)
    IN IF st.returned THEN st.value ELSE NormalReturn(st)

\* subsets of S with at most n elements
SubsetsUpTo(S, n) == {T \in SUBSET S : Cardinality(T) <= n}

EmailPool == {"billing@acme.com", "Billing@Acme.com", "fake@example.com", "FAKE@example.com"}

RedirectEmails == {None, "", "billing@acme.com", "Billing@Acme.com"}

\* EntityVerificationGuardrail.validate(output, context, **kwargs)
EntityValidateCall ==
    /\ cpc = "idle"
    /\ \E found_emails \in SubsetsUpTo(EmailPool, MaxMentions),
          adjudications \in AdjudicationRuns,
          extracted_data \in {NoExtractedData} \cup
                             {ExtractedData(NoDate, r) : r \in RedirectEmails},
          ff \in BOOLEAN :
          LET rs == EntityVerification_validate(found_emails, adjudications,
                                                extracted_data)
              run == RetryAdjudicator(adjudications, 0, <<>>)
          IN /\ call' = [op |-> "entity_verification.validate",
                         found_emails |-> found_emails,
                         adjudications |-> adjudications,
                         extracted_data |-> extracted_data,
                         fail_fast |-> ff,
                         adjudicator_calls |-> run.calls,
                         sleeps |-> run.waits]
             /\ returned' = rs
             /\ piped' = SinglePipelineValidate(EntityVerificationGuardrail,
                                                Return(rs), ff)
    /\ cpc' = "returned"
    /\ UNCHANGED <<pvars, gvars, rvars, fvars, lvars>>

\* the thread a call runs on: whether an event loop is running on it
Thread(running_loop) == [running_loop |-> running_loop]

\* the thread of the server's event loop, on which the route coroutine and
\* the generate() coroutine it awaits are run
ServerLoopThread == Thread(TRUE)

\* _validate_entities_with_llm, lines 161-179: loop.run_until_complete() of
\* the adjudicator call on a new event loop; it raises RuntimeError when the
\* thread is already running an event loop
run_until_complete(thread, outcome) ==
    IF thread.running_loop THEN AdjudicatorRaises ELSE outcome

\* generate() reaching EntityVerificationGuardrail.validate(): the coroutine
\* calls guardrail_pipeline.validate(output, context) directly, which calls
\* the guardrail on the same thread; would_answer is what llm_client would
\* do on each adjudicator call
GenerateEntityValidateCall ==
    /\ cpc = "idle"
    /\ \E would_answer \in AdjudicationRuns :
          LET thread == ServerLoopThread
              attempts == [k \in 1..MAX_RETRIES |->
                              run_until_complete(thread, would_answer[k])]
              rs == EntityVerification_validate({}, attempts, NoExtractedData)
              run == RetryAdjudicator(attempts, 0, <<>>)
          IN /\ call' = [op |-> "generate.entity_verification.validate",
                         thread |-> thread,
                         would_answer |-> would_answer,
                         adjudications |-> attempts,
                         fail_fast |-> TRUE,
                         sleeps |-> run.waits]
             /\ returned' = rs
             /\ piped' = SinglePipelineValidate(EntityVerificationGuardrail,
                                                Return(rs), TRUE)
    /\ cpc' = "returned"
    /\ UNCHANGED <<pvars, gvars, rvars, fvars, lvars>>

\* ------------------------------------------------------------------------
\* Texts the guardrails compare are sequences of characters
\* ------------------------------------------------------------------------
ascii_lowercase == <<"a", "b", "c", "d", "e", "f", "g", "h", "i", "j", "k", "l", "m", "n", "o", "p", "q", "r", "s", "t", "u", "v", "w", "x", "y", "z">>

ascii_uppercase == <<"A", "B", "C", "D", "E", "F", "G", "H", "I", "J", "K", "L", "M", "N", "O", "P", "Q", "R", "S", "T", "U", "V", "W", "X", "Y", "Z">>

digits == {"0", "1", "2", "3", "4", "5", "6", "7", "8", "9"}

\* str.upper()
upper(s) ==
    [i \in 1..Len(s) |->
        IF \E k \in 1..26 : ascii_lowercase[k] = s[i]
        THEN ascii_uppercase[CHOOSE k \in 1..26 : ascii_lowercase[k] = s[i]]
        ELSE s[i]]

\* needle in hay, for two str
contains(hay, needle) ==
    \E i \in 0..(Len(hay) - Len(needle)) :
        SubSeq(hay, i + 1, i + Len(needle)) = needle

\* re.search(r"\d+", s): the first run of digits, as a set of 0 or 1 text
first_digit_run(s) ==
    LET at == {i \in 1..Len(s) : s[i] \in digits}
    IN IF at = {} THEN {}
       ELSE LET start == CHOOSE i \in at : \A j \in at : i <= j
                stop == CHOOSE j \in start..Len(s) :
                            /\ \A k \in start..j : s[k] \in digits
                            /\ (j = Len(s) \/ s[j + 1] \notin digits)
            IN {SubSeq(s, start, stop)}

\* ------------------------------------------------------------------------
\* requests.py: ObligationInfo; amounts are in thousandths of a currency
\* unit, a due_date is a text of some format naming a day number
\* ------------------------------------------------------------------------
ObligationInfo(invoice_number, original_amount, amount_due, due_date, days_past_due) ==
    [invoice_number |-> invoice_number, original_amount |-> original_amount,
     amount_due |-> amount_due, due_date |-> due_date,
     days_past_due |-> days_past_due]

DateText(format, day) == [format |-> format, day |-> day]

ObligationPool ==
    {ObligationInfo(<<"I", "N", "V", "-", "1", "2", "3">>, 1500750, 1500750,
                    DateText("%Y-%m-%d", 10), 30),
     ObligationInfo(<<"a", "b", "-", "4", "5">>, 2500000, 2400509,
                    DateText("%Y-%m-%d", 14), 26),
     ObligationInfo(<<"A", "B">>, 999, 999,
                    DateText("%d/%m/%Y", 20), 0)}

\* the obligations lists of the contexts
ObligationLists == SeqsUpTo(ObligationPool, MaxObligations)

\* sum(o.amount_due for o in obligations)
RECURSIVE total_amount_due(_)
total_amount_due(obligations) ==
    IF Len(obligations) = 0 THEN 0
    ELSE Head(obligations).amount_due + total_amount_due(Tail(obligations))

\* ------------------------------------------------------------------------
\* factual_grounding.py: FactualGroundingGuardrail
\* ------------------------------------------------------------------------
\* a place of the draft where an invoice pattern may match: the text before
\* the candidate identifier and the candidate itself.  Every mention of the
\* pool is text that at most the one pattern it names matches.
InvoiceMention(pattern, prefix, capture) ==
    [pattern |-> pattern, prefix |-> prefix, capture |-> capture]

InvoiceMentionPool ==
    {InvoiceMention("INV", <<"I", "N", "V", "-">>, <<"1", "2", "3">>),
     InvoiceMention("Invoice", <<"I", "n", "v", "o", "i", "c", "e", " ">>, <<"2", "3">>),
     InvoiceMention("INV", <<"i", "n", "v", "-">>, <<"9", "9">>),
     InvoiceMention("invoice number", <<"i", "n", "v", "o", "i", "c", "e", " ", "n", "u", "m", "b", "e", "r", ":", " ">>, <<"a", "b", "-", "4", "5">>),
     InvoiceMention("invoice number", <<"i", "n", "v", "o", "i", "c", "e", " ", "n", "u", "m", "b", "e", "r", ":", " ">>, <<"N", "V">>),
     InvoiceMention("#", <<"#">>, <<"4", "5">>),
     InvoiceMention("#", <<"#">>, <<"9", "9", "9", "9">>)}

\* re.findall of the invoice patterns on one mention: the captured group
invoice_pattern_matches(m) ==
    CASE m.pattern \in {"INV", "Invoice"} ->
            IF Len(m.capture) >= 1 /\ \A i \in 1..Len(m.capture) : m.capture[i] \in digits
            THEN {m.capture} ELSE {}
      [] m.pattern = "invoice number" ->
            IF Len(m.capture) >= 1 /\ \A i \in 1..Len(m.capture) : m.capture[i] # " "
            THEN {m.capture} ELSE {}
      [] m.pattern = "#" ->
            IF Len(m.capture) >= 4 /\ \A i \in 1..Len(m.capture) : m.capture[i] \in digits
            THEN {m.capture} ELSE {}

\* FactualGroundingGuardrail._validate_invoice_numbers; the lists built from
\* sets (expected, found) are kept as sets
FactualGrounding_validate_invoice_numbers(mentions, obligations) ==
    LET g == FactualGroundingGuardrail
        valid_invoices == {upper(obligations[i].invoice_number) :
                              i \in 1..Len(obligations)}
        valid_invoice_numbers == UNION {first_digit_run(inv) : inv \in valid_invoices}
        exact == {inv \in valid_invoices :
                     \E m \in mentions : contains(upper(m.prefix \o m.capture), inv)}
        matches == UNION {invoice_pattern_matches(m) : m \in mentions}
        found_invoices == exact \cup {upper(match) : match \in matches}
        invalid_invoices ==
            {found_inv \in found_invoices :
                ~(\/ found_inv \in valid_invoices
                  \/ \E valid \in valid_invoices : contains(valid, found_inv)
                  \/ found_inv \in valid_invoice_numbers)}
    IN IF invalid_invoices # {}
       THEN guardrail_fail(g, "Invoice numbers not found in context",
                           valid_invoices, invalid_invoices)
       ELSE guardrail_pass(g, "All invoice numbers validated")

\* 0.01, the tolerance of the amount comparisons
AmountTolerance == 10

\* round(a, 2) of a non-negative amount
round2(a) == ((a + 5) \div 10) * 10

\* int(a) of a non-negative amount
int_trunc(a) == (a \div 1000) * 1000

abs(x) == IF x < 0 THEN -x ELSE x

\* abs(amount - valid) < 0.01 on floats: a difference of exactly 0.01 comes
\* out on either side of the bound, as the operands round (fp)
within_tolerance(amount, valid, fp) ==
    \/ abs(amount - valid) < AmountTolerance
    \/ abs(amount - valid) = AmountTolerance /\ fp

\* amounts the amount patterns find in drafts, parsed
FoundAmountPool == {0, 1500000, 1500750, 1500760, 1500770, 2400500, 2400530}

\* the amount check without the absolute-difference test
FactualGrounding_validate_amounts_exact_only(found_amounts, obligations, fp) ==
    LET g == FactualGroundingGuardrail
        valid_amounts ==
            UNION {{obligations[i].amount_due, obligations[i].original_amount} :
                      i \in 1..Len(obligations)}
            \cup {total_amount_due(obligations)}
        valid_amounts_rounded == {round2(a) : a \in valid_amounts}
        valid_amounts_int == {int_trunc(a) : a \in valid_amounts}
        invalid_amounts ==
            SelectSeq(found_amounts,
                      LAMBDA amount : ~(\/ amount \in valid_amounts_rounded
                                        \/ amount \in valid_amounts_int))
    IN IF Len(invalid_amounts) > 0
       THEN guardrail_fail(g, "Amounts not found in context", valid_amounts,
                           invalid_amounts)
       ELSE guardrail_pass(g, "All monetary amounts validated")

\* FactualGroundingGuardrail._validate_amounts; found is the list
\* invalid_amounts, expected the valid amounts as a set
FactualGrounding_validate_amounts(found_amounts, obligations, fp) ==
    LET g == FactualGroundingGuardrail
        valid_amounts ==
            UNION {{obligations[i].amount_due, obligations[i].original_amount} :
                      i \in 1..Len(obligations)}
            \cup {total_amount_due(obligations)}
        valid_amounts_rounded == {round2(a) : a \in valid_amounts}
        valid_amounts_int == {int_trunc(a) : a \in valid_amounts}
        invalid_amounts ==
            SelectSeq(found_amounts,
                      LAMBDA amount :
                          ~(\/ amount \in valid_amounts_rounded
                            \/ amount \in valid_amounts_int
                            \/ \E valid \in valid_amounts :
                                  within_tolerance(amount, valid, fp)))
    IN IF Len(invalid_amounts) > 0
       THEN guardrail_fail(g, "Amounts not found in context", valid_amounts,
                           invalid_amounts)
       ELSE guardrail_pass(g, "All monetary amounts validated")

\* FactualGroundingGuardrail.validate
FactualGrounding_validate(mentions, found_amounts, obligations, fp) ==
    <<FactualGrounding_validate_invoice_numbers(mentions, obligations),
      FactualGrounding_validate_amounts(found_amounts, obligations, fp)>>

\* FactualGroundingGuardrail._validate_amounts(output, context)
ValidateAmountsCall ==
    /\ cpc = "idle"
    /\ \E found_amounts \in SeqsUpTo(FoundAmountPool, MaxMentions),
          obligations \in ObligationLists,
          fp \in BOOLEAN :
          /\ call' = [op |-> "factual_grounding._validate_amounts",
                      found_amounts |-> found_amounts,
                      obligations |-> obligations, fp |-> fp]
          /\ returned' = FactualGrounding_validate_amounts(found_amounts,
                                                           obligations, fp)
    /\ cpc' = "returned"
    /\ UNCHANGED <<pvars, gvars, piped, rvars, fvars, lvars>>

\* FactualGroundingGuardrail.validate(output, context)
FactualValidateCall ==
    /\ cpc = "idle"
    /\ \E mentions \in SubsetsUpTo(InvoiceMentionPool, MaxMentions),
          found_amounts \in SeqsUpTo(FoundAmountPool, 1),
          obligations \in ObligationLists,
          fp \in BOOLEAN, ff \in BOOLEAN :
          LET rs == FactualGrounding_validate(mentions, found_amounts,
                                              obligations, fp)
          IN /\ call' = [op |-> "factual_grounding.validate",
                         mentions |-> mentions,
                         found_amounts |-> found_amounts,
                         obligations |-> obligations, fp |-> fp,
                         fail_fast |-> ff]
             /\ returned' = rs
             /\ piped' = SinglePipelineValidate(FactualGroundingGuardrail,
                                                Return(rs), ff)
    /\ cpc' = "returned"
    /\ UNCHANGED <<pvars, gvars, rvars, fvars, lvars>>

\* ------------------------------------------------------------------------
\* numerical.py: NumericalConsistencyGuardrail
\* ------------------------------------------------------------------------
\* totals the total patterns find in drafts, parsed
StatedTotalPool == {1500750, 1500760, 5000000}

\* day counts the days-overdue patterns find in drafts
MentionedDaysPool == {0, 2, 24, 27, 28, 32}

\* abs(stated - actual_total) > 0.01 on floats: a difference of exactly 0.01
\* comes out on either side of the bound (fp)
exceeds_tolerance(stated, actual_total, fp) ==
    \/ abs(stated - actual_total) > AmountTolerance
    \/ abs(stated - actual_total) = AmountTolerance /\ ~fp

\* NumericalConsistencyGuardrail._validate_total_calculation
RECURSIVE Numerical_validate_total_calculation(_, _, _)
Numerical_validate_total_calculation(stated_totals, obligations, fp) ==
    LET g == NumericalConsistencyGuardrail
        actual_total == total_amount_due(obligations)
    IN IF Len(stated_totals) = 0
       THEN guardrail_pass(g, "Total calculations validated")
       ELSE IF exceeds_tolerance(Head(stated_totals), actual_total, fp)
       THEN guardrail_fail(g, "Stated total does not match calculated total",
                           actual_total, Head(stated_totals))
       ELSE Numerical_validate_total_calculation(Tail(stated_totals),
                                                 obligations, fp)

\* max(valid_days) if valid_days else 0
max_days(valid_days) ==
    IF valid_days = {} THEN 0
    ELSE CHOOSE d \in valid_days : \A e \in valid_days : e <= d

\* NumericalConsistencyGuardrail._validate_days_overdue; expected is the
\* valid day counts as a set
RECURSIVE Numerical_validate_days_overdue(_, _)
Numerical_validate_days_overdue(mentioned, obligations) ==
    LET g == NumericalConsistencyGuardrail
        days_past_due == {obligations[i].days_past_due : i \in 1..Len(obligations)}
        valid_days == days_past_due \cup {max_days(days_past_due)}
    IN IF Len(mentioned) = 0
       THEN guardrail_pass(g, "Days overdue calculations validated")
       ELSE LET mentioned_days == Head(mentioned)
                is_valid == \E valid \in valid_days :
                                abs(mentioned_days - valid) <= 1
            IN IF ~is_valid /\ mentioned_days > 0
               THEN guardrail_fail(g, "Days overdue not found in context",
                                   valid_days, mentioned_days)
               ELSE Numerical_validate_days_overdue(Tail(mentioned), obligations)

\* NumericalConsistencyGuardrail.validate
Numerical_validate(stated_totals, mentioned, obligations, fp) ==
    <<Numerical_validate_total_calculation(stated_totals, obligations, fp),
      Numerical_validate_days_overdue(mentioned, obligations)>>

\* NumericalConsistencyGuardrail.validate(output, context)
NumericalValidateCall ==
    /\ cpc = "idle"
    /\ \E stated_totals \in SeqsUpTo(StatedTotalPool, 1),
          mentioned \in SeqsUpTo(MentionedDaysPool, MaxMentions),
          obligations \in ObligationLists,
          fp \in BOOLEAN :
          LET rs == Numerical_validate(stated_totals, mentioned, obligations, fp)
          IN /\ call' = [op |-> "numerical_consistency.validate",
                         stated_totals |-> stated_totals,
                         mentioned |-> mentioned,
                         obligations |-> obligations, fp |-> fp,
                         fail_fast |-> TRUE]
             /\ returned' = rs
             /\ piped' = SinglePipelineValidate(NumericalConsistencyGuardrail,
                                                Return(rs), TRUE)
    /\ cpc' = "returned"
    /\ UNCHANGED <<pvars, gvars, rvars, fvars, lvars>>

\* ------------------------------------------------------------------------
\* temporal.py: TemporalConsistencyGuardrail
\* ------------------------------------------------------------------------
\* date.today()
TodayPool == {100, 465}

\* promise dates of the extracted data, in days from today
PromiseOffsets == {-1, 0, 90, 91}

\* date texts the date patterns find in drafts; the patterns also match a
\* day with an abbreviated month name ("12 Jan 2024")
DateMentionPool ==
    {DateText("%d/%m/%Y", 10), DateText("%d/%m/%Y", 11),
     DateText("%d %B %Y", 12), DateText("%d-%m-%y", 13),
     DateText("%d %b %Y", 30)}

\* date.fromisoformat(text): the date, or None for ValueError
fromisoformat(text) ==
    IF text.format = "%Y-%m-%d" THEN Date(text.day) ELSE NoDate

\* TemporalConsistencyGuardrail._parse_date
parse_date(text) ==
    IF text.format \in {"%d/%m/%Y", "%d-%m-%Y", "%d/%m/%y", "%d-%m-%y",
                        "%m/%d/%Y", "%Y-%m-%d", "%d %B %Y"}
    THEN Date(text.day) ELSE NoDate

\* promise check that does not accept today
Temporal_validate_promise_date_is_future_strict(extracted_data, today) ==
    LET g == TemporalConsistencyGuardrail
        promise_date == extracted_data.promise_date
    IN IF promise_date = NoDate
       THEN guardrail_pass(g, "No promise date to validate")
       ELSE IF promise_date.day <= today
       THEN guardrail_fail(g, "Promise date is in the past",
                           "Date in future or today", promise_date.day)
            @@ [details |-> [days_past |-> today - promise_date.day]]
       ELSE IF promise_date.day - today > 90
       THEN guardrail_fail(g, "Promise date is in future (unusual)",
                           "Date within 90 days", promise_date.day)
            @@ [details |-> [days_future |-> promise_date.day - today]]
       ELSE guardrail_pass(g, "Promise date is valid")
            @@ [details |-> [days_future |-> promise_date.day - today]]

\* TemporalConsistencyGuardrail._validate_promise_date_is_future, with the
\* details of its results
Temporal_validate_promise_date_is_future(extracted_data, today) ==
    LET g == TemporalConsistencyGuardrail
        promise_date == extracted_data.promise_date
    IN IF promise_date = NoDate
       THEN guardrail_pass(g, "No promise date to validate")
       ELSE IF promise_date.day < today
       THEN guardrail_fail(g, "Promise date is in the past",
                           "Date in future or today", promise_date.day)
            @@ [details |-> [days_past |-> today - promise_date.day]]
       ELSE IF promise_date.day - today > 90
       THEN guardrail_fail(g, "Promise date is in future (unusual)",
                           "Date within 90 days", promise_date.day)
            @@ [details |-> [days_future |-> promise_date.day - today]]
       ELSE guardrail_pass(g, "Promise date is valid")
            @@ [details |-> [days_future |-> promise_date.day - today]]

\* the tolerance test, accepting only the due dates themselves
is_close_exact(mentioned, valid_due_dates) ==
    mentioned \in valid_due_dates

\* _validate_due_dates, line 117: is_close, within 1 day of some valid date
is_close(mentioned, valid_due_dates) ==
    \E valid \in valid_due_dates : abs(mentioned - valid) <= 1

\* _validate_due_dates, lines 113-132: the loop over mentioned_dates
RECURSIVE check_mentioned_dates(_, _)
check_mentioned_dates(mentioned_dates, valid_due_dates) ==
    LET g == TemporalConsistencyGuardrail
    IN IF Len(mentioned_dates) = 0
       THEN guardrail_pass(g, "Due dates validated")
       ELSE LET mentioned == Head(mentioned_dates)
            IN IF /\ mentioned \notin valid_due_dates
                  /\ ~is_close(mentioned, valid_due_dates)
               THEN guardrail_fail(g, "Due date not found in obligations",
                                   valid_due_dates, mentioned)
               ELSE check_mentioned_dates(Tail(mentioned_dates), valid_due_dates)

\* TemporalConsistencyGuardrail._validate_due_dates; dates are day numbers
Temporal_validate_due_dates(mentions, obligations) ==
    LET valid_due_dates ==
            {fromisoformat(obligations[i].due_date).day :
                i \in {j \in 1..Len(obligations) :
                          fromisoformat(obligations[j].due_date) # NoDate}}
        parsed == SelectSeq(mentions, LAMBDA m : parse_date(m) # NoDate)
        mentioned_dates == [k \in 1..Len(parsed) |-> parse_date(parsed[k]).day]
    IN check_mentioned_dates(mentioned_dates, valid_due_dates)

\* TemporalConsistencyGuardrail.validate
Temporal_validate(mentions, obligations, extracted_data, today) ==
    (IF extracted_data # NoExtractedData
     THEN <<Temporal_validate_promise_date_is_future(extracted_data, today)>>
     ELSE <<>>)
    \o <<Temporal_validate_due_dates(mentions, obligations)>>

\* TemporalConsistencyGuardrail.validate(output, context, **kwargs)
TemporalValidateCall ==
    /\ cpc = "idle"
    /\ \E mentions \in SeqsUpTo(DateMentionPool, MaxMentions),
          obligations \in ObligationLists,
          today \in TodayPool,
          ff \in BOOLEAN :
       \E extracted_data \in
              {NoExtractedData, ExtractedData(NoDate, None)} \cup
              {ExtractedData(Date(today + off), None) : off \in PromiseOffsets} :
          LET rs == Temporal_validate(mentions, obligations, extracted_data, today)
          IN /\ call' = [op |-> "temporal_consistency.validate",
                         mentions |-> mentions, obligations |-> obligations,
                         extracted_data |-> extracted_data, today |-> today,
                         fail_fast |-> ff]
             /\ returned' = rs
             /\ piped' = SinglePipelineValidate(TemporalConsistencyGuardrail,
                                                Return(rs), ff)
    /\ cpc' = "returned"
    /\ UNCHANGED <<pvars, gvars, rvars, fvars, lvars>>

\* ------------------------------------------------------------------------
\* contextual.py: ContextualCoherenceGuardrail
\* ------------------------------------------------------------------------
\* a draft is a set of sentences, joined by ". "; the sentences drafts are
\* made of
SentencePool ==
    {"must pay immediately", "LEGAL ACTION", "demand payment", "under review",
     "payment plan", "promise"}

BrokenPromisesPool == {0, 1, 2}

\* CaseContext, the fields the guardrail reads
CaseContext(active_dispute, hardship_indicated, broken_promises_count) ==
    [active_dispute |-> active_dispute,
     hardship_indicated |-> hardship_indicated,
     broken_promises_count |-> broken_promises_count]

\* output.lower(), sentence by sentence
output_lower(output) ==
    {IF sentence = "LEGAL ACTION" THEN "legal action" ELSE sentence :
        sentence \in output}

\* the phrases of the guardrail's lists that are substrings of a sentence
phrases_of(sentence) ==
    CASE sentence = "must pay immediately" ->
            {"must pay immediately", "must pay", "pay immediately"}
      [] sentence = "demand payment" -> {"demand payment", "demand"}
      [] OTHER -> {sentence}

\* `phrase in output_lower`
phrase_in(phrase, lowered) == \E sentence \in lowered : phrase \in phrases_of(sentence)

demand_phrases ==
    {"pay immediately", "pay now", "immediate payment", "pay in full",
     "demand payment", "must pay", "required to pay",
     "failure to pay will result", "legal action", "collection agency"}

dispute_phrases ==
    {"dispute", "under review", "investigating", "looking into", "resolve",
     "concern", "issue"}

harsh_phrases ==
    {"failure to pay", "will be forced", "no choice but", "legal consequences",
     "must pay immediately", "demand", "threaten"}

empathetic_phrases ==
    {"understand", "difficult", "challenging", "work with you", "payment plan",
     "options", "help", "support", "flexibility", "circumstances"}

history_phrases ==
    {"previous", "history", "past", "again", "before", "commitment", "promise",
     "assured"}

\* ContextualCoherenceGuardrail._validate_dispute_awareness; found_demands
\* is kept as a set
Contextual_validate_dispute_awareness(output) ==
    LET g == ContextualCoherenceGuardrail
        lowered == output_lower(output)
        found_demands == {phrase \in demand_phrases : phrase_in(phrase, lowered)}
        acknowledges_dispute == \E phrase \in dispute_phrases : phrase_in(phrase, lowered)
    IN IF found_demands # {} /\ ~acknowledges_dispute
       THEN guardrail_fail(g, "Output demands payment during active dispute without acknowledgment",
                           "Acknowledge dispute, avoid payment demands",
                           found_demands)
       ELSE IF ~acknowledges_dispute
       THEN guardrail_fail(g, "Output does not acknowledge active dispute",
                           "Reference to dispute or investigation",
                           "No dispute acknowledgment")
       ELSE guardrail_pass(g, "Output appropriately handles dispute context")

\* ContextualCoherenceGuardrail._validate_hardship_tone; found_harsh is kept
\* as a set
Contextual_validate_hardship_tone(output) ==
    LET g == ContextualCoherenceGuardrail
        lowered == output_lower(output)
        found_harsh == {phrase \in harsh_phrases : phrase_in(phrase, lowered)}
        found_empathetic == {phrase \in empathetic_phrases : phrase_in(phrase, lowered)}
    IN IF found_harsh # {} /\ found_empathetic = {}
       THEN guardrail_fail(g, "Output uses harsh tone for hardship case",
                           "Empathetic language, payment options", found_harsh)
       ELSE IF found_empathetic = {}
       THEN guardrail_fail(g, "Output lacks empathetic language for hardship case",
                           "Understanding tone, payment options",
                           "No empathetic phrases detected")
       ELSE guardrail_pass(g, "Output uses appropriate tone for hardship case")

\* the promise check asking for a history reference from the first broken
\* promise on
Contextual_validate_promise_awareness_from_first(output, ctx) ==
    LET g == ContextualCoherenceGuardrail
        lowered == output_lower(output)
        acknowledges_history == \E phrase \in history_phrases : phrase_in(phrase, lowered)
        count == [broken_promises_count |-> ctx.broken_promises_count]
    IN IF ctx.broken_promises_count >= 1
       THEN IF ~acknowledges_history
            THEN guardrail_fail(g, "Output doesn't reference broken promises",
                                "Acknowledgment of payment history",
                                "No history reference")
                 @@ [details |-> count @@ [history_acknowledged |-> FALSE]]
            ELSE guardrail_pass(g, "Output acknowledges payment history")
                 @@ [details |-> count @@ [history_acknowledged |-> TRUE]]
       ELSE guardrail_pass(g, "No significant promise history to reference")
            @@ [details |-> count]

\* ContextualCoherenceGuardrail._validate_promise_awareness
Contextual_validate_promise_awareness(output, ctx) ==
    LET g == ContextualCoherenceGuardrail
        lowered == output_lower(output)
        acknowledges_history == \E phrase \in history_phrases : phrase_in(phrase, lowered)
        count == [broken_promises_count |-> ctx.broken_promises_count]
    IN IF ctx.broken_promises_count >= 2
       THEN IF ~acknowledges_history
            THEN guardrail_fail(g, "Output doesn't reference broken promises",
                                "Acknowledgment of payment history",
                                "No history reference")
                 @@ [details |-> count @@ [history_acknowledged |-> FALSE]]
            ELSE guardrail_pass(g, "Output acknowledges payment history")
                 @@ [details |-> count @@ [history_acknowledged |-> TRUE]]
       ELSE guardrail_pass(g, "No significant promise history to reference")
            @@ [details |-> count]

\* validate() without the closing `if not results:` pass
Contextual_validate_no_fallback(output, ctx) ==
    LET dispute == IF ctx.active_dispute
                   THEN <<Contextual_validate_dispute_awareness(output)>> ELSE <<>>
        hardship == IF ctx.hardship_indicated
                    THEN <<Contextual_validate_hardship_tone(output)>> ELSE <<>>
        promise == IF ctx.broken_promises_count > 0
                   THEN <<Contextual_validate_promise_awareness(output, ctx)>>
                   ELSE <<>>
    IN dispute \o hardship \o promise

\* ContextualCoherenceGuardrail.validate
Contextual_validate(output, ctx) ==
    LET dispute == IF ctx.active_dispute
                   THEN <<Contextual_validate_dispute_awareness(output)>> ELSE <<>>
        hardship == IF ctx.hardship_indicated
                    THEN <<Contextual_validate_hardship_tone(output)>> ELSE <<>>
        promise == IF ctx.broken_promises_count > 0
                   THEN <<Contextual_validate_promise_awareness(output, ctx)>>
                   ELSE <<>>
        results == dispute \o hardship \o promise
    IN IF results = <<>>
       THEN <<guardrail_pass(ContextualCoherenceGuardrail,
                             "No special context conditions to validate")>>
       ELSE results

\* ContextualCoherenceGuardrail.validate(output, context)
ContextualValidateCall ==
    /\ cpc = "idle"
    /\ \E output \in SubsetsUpTo(SentencePool, MaxMentions),
          active_dispute \in BOOLEAN, hardship_indicated \in BOOLEAN,
          broken_promises_count \in BrokenPromisesPool,
          ff \in BOOLEAN :
          LET ctx == CaseContext(active_dispute, hardship_indicated,
                                 broken_promises_count)
              rs == Contextual_validate(output, ctx)
          IN /\ call' = [op |-> "contextual_coherence.validate",
                         output |-> output, context |-> ctx, fail_fast |-> ff]
             /\ returned' = rs
             /\ piped' = SinglePipelineValidate(ContextualCoherenceGuardrail,
                                                Return(rs), ff)
    /\ cpc' = "returned"
    /\ UNCHANGED <<pvars, gvars, rvars, fvars, lvars>>

InitChecks ==
    /\ supplied = NoList
    /\ guardrails = guardrail_pipeline
    /\ context = [has_obligations |-> FALSE, active_dispute |-> FALSE,
                  hardship_indicated |-> FALSE]
    /\ pc = "idle"
    /\ fail_fast = TRUE
    /\ idx = 1
    /\ locals = ValidateLocals
    /\ invoked = <<>>
    /\ verdict = NoVerdict
    /\ GeneratorIdle
    /\ ChecksIdle
    /\ RepeatIdle
    /\ ConcurrentIdle
    /\ LLMIdle

NextChecks ==
    \/ EntityValidateCall
    \/ GenerateEntityValidateCall
    \/ FactualValidateCall
    \/ ValidateAmountsCall
    \/ NumericalValidateCall
    \/ TemporalValidateCall
    \/ ContextualValidateCall

SpecChecks == InitChecks /\ [][NextChecks]_vars

\* ------------------------------------------------------------------------
\* llm/factory.py: LLMProviderWithFallback
\* ------------------------------------------------------------------------
ProviderNames == {"gemini", "openai"}

Provider(name) == [is_none |-> FALSE, provider_name |-> name]

Raises(error) == [kind |-> "raise", error |-> error]
Returns(value) == [kind |-> "return", value |-> value]

\* GeminiProvider(...) / OpenAIProvider(...): ValueError without an API key
construct(name, conf) ==
    IF name = "gemini"
    THEN IF conf.gemini_api_key THEN Returns(Provider("gemini"))
         ELSE Raises("ValueError: GEMINI_API_KEY not provided")
    ELSE IF conf.openai_api_key THEN Returns(Provider("openai"))
         ELSE Raises("ValueError: OPENAI_API_KEY not provided")

\* the property `primary`: the client afterwards and what the access gives
primary(client, conf) ==
    IF client.primary = NoProvider
    THEN LET made == construct(client.primary_provider_name, conf)
         IN IF made.kind = "raise" THEN [client |-> client, got |-> made]
            ELSE [client |-> [client EXCEPT !.primary = made.value], got |-> made]
    ELSE [client |-> client, got |-> Returns(client.primary)]

\* the property `fallback`: a ValueError of the constructor disables the
\* fallback and gives None
fallback(client, conf) ==
    IF client.fallback = NoProvider /\ client.fallback_provider_name # None
    THEN LET made == construct(client.fallback_provider_name, conf)
         IN IF made.kind = "raise"
            THEN [client |-> [client EXCEPT !.fallback_provider_name = None],
                  got |-> NoProvider]
            ELSE [client |-> [client EXCEPT !.fallback = made.value],
                  got |-> made.value]
    ELSE [client |-> client, got |-> client.fallback]

\* the property `fallback_enabled`
fallback_enabled(client) == client.fallback_provider_name # None

\* what a provider's complete() does when it is called
ProviderOutcomes == {"responds", "fails"}

\* the except branch of complete(), lines 97-121, entered with the error e
complete_except(client, conf, e, primary_calls, fallback_does) ==
    LET p == primary(client, conf)
    IN IF p.got.kind = "raise"
       THEN [client |-> p.client, result |-> Raises(p.got.error),
             primary_calls |-> primary_calls, fallback_calls |-> 0]
       ELSE IF ~fallback_enabled(p.client)
       THEN [client |-> p.client, result |-> Raises(e),
             primary_calls |-> primary_calls, fallback_calls |-> 0]
       ELSE LET f == fallback(p.client, conf)
            IN IF f.got = NoProvider
               THEN [client |-> f.client,
                     result |-> Raises("AttributeError: 'NoneType' object has no attribute 'provider_name'"),
                     primary_calls |-> primary_calls, fallback_calls |-> 0]
               ELSE LET counted == [f.client EXCEPT !.fallback_count = @ + 1]
                    IN [client |-> counted,
                        result |-> IF fallback_does = "responds"
                                   THEN Returns([provider |-> f.got.provider_name])
                                   ELSE Raises("fallback error"),
                        primary_calls |-> primary_calls, fallback_calls |-> 1]

\* LLMProviderWithFallback.complete, lines 85-121
complete(client, conf, primary_does, fallback_does) ==
    LET p == primary(client, conf)
    IN IF p.got.kind = "raise"
       THEN complete_except(p.client, conf, p.got.error, 0, fallback_does)
       ELSE IF primary_does = "responds"
       THEN [client |-> p.client,
             result |-> Returns([provider |-> p.got.value.provider_name]),
             primary_calls |-> 1, fallback_calls |-> 0]
       ELSE complete_except(p.client, conf, "primary error", 1, fallback_does)

\* LLMProviderWithFallback.health_check, lines 123-134: the accesses to
\* self.primary and self.fallback
health_check(client, conf) ==
    LET p == primary(client, conf)
    IN IF p.got.kind = "raise"
       THEN [client |-> p.client, result |-> Raises(p.got.error)]
       ELSE LET f == fallback(p.client, conf)
            IN [client |-> f.client,
                result |-> Returns([fallback |-> IF f.got = NoProvider
                                                 THEN "disabled" ELSE "checked",
                                    fallback_count |-> f.client.fallback_count])]

\* llm_client.complete(system_prompt, user_prompt, **kwargs) is awaited
CompleteCall ==
    /\ llm_client.fallback_count < MaxFallbacks
    /\ \E primary_does \in ProviderOutcomes, fallback_does \in ProviderOutcomes :
          LET done == complete(llm_client, settings, primary_does, fallback_does)
          IN /\ llm_client' = done.client
             /\ completion' = [op |-> "complete", before |-> llm_client,
                               primary_does |-> primary_does,
                               fallback_does |-> fallback_does,
                               primary_calls |-> done.primary_calls,
                               fallback_calls |-> done.fallback_calls,
                               result |-> done.result]
    /\ UNCHANGED settings
    /\ UNCHANGED <<pvars, gvars, cvars, rvars, fvars>>

\* llm_client.health_check() is awaited
HealthCheckCall ==
    /\ LET done == health_check(llm_client, settings)
       IN /\ llm_client' = done.client
          /\ completion' = [op |-> "health_check", before |-> llm_client,
                            result |-> done.result]
    /\ UNCHANGED settings
    /\ UNCHANGED <<pvars, gvars, cvars, rvars, fvars>>

InitLLM ==
    /\ supplied = NoList
    /\ guardrails = guardrail_pipeline
    /\ context = [has_obligations |-> FALSE, active_dispute |-> FALSE,
                  hardship_indicated |-> FALSE]
    /\ pc = "idle"
    /\ fail_fast = TRUE
    /\ idx = 1
    /\ locals = ValidateLocals
    /\ invoked = <<>>
    /\ verdict = NoVerdict
    /\ GeneratorIdle
    /\ ChecksIdle
    /\ RepeatIdle
    /\ ConcurrentIdle
    /\ settings \in [gemini_api_key : BOOLEAN, openai_api_key : BOOLEAN]
    /\ \E primary_provider \in ProviderNames,
          fallback_provider \in ProviderNames \cup {None} :
          llm_client = LLMProviderWithFallback(primary_provider, fallback_provider)
    /\ completion = NoCompletion

NextLLM ==
    \/ CompleteCall
    \/ HealthCheckCall

SpecLLM == InitLLM /\ [][NextLLM]_vars

\* ------------------------------------------------------------------------
\* Requests calling validate() on the module-level guardrail_pipeline at the
\* same time: every call has a frame of its own, the pipeline is shared
\* ------------------------------------------------------------------------
\* the lists of g that pass every check, and those that fail every check
PassingReturns(g, ctx) ==
    {rs \in ValidateReturns(g, ctx) : \A i \in 1..Len(rs) : rs[i].passed}

FailingReturns(g, ctx) ==
    {rs \in ValidateReturns(g, ctx) : rs # <<>> /\ \A i \in 1..Len(rs) : ~rs[i].passed}

\* a case with obligations, an open dispute and hardship, so that every check
\* of every default guardrail applies
RequestContexts ==
    {ctx \in Contexts :
        ctx.has_obligations /\ ctx.active_dispute /\ ctx.hardship_indicated}

\* a request: its context and the one guardrail, if any, that objects to its
\* draft, by failing every check or by raising
Requests ==
    [context : RequestContexts, objector : {None}, objection : {"none"}]
    \cup [context : RequestContexts,
          objector : {guardrail_pipeline[i].name : i \in 1..Len(guardrail_pipeline)},
          objection : {"fails", "raises"}]

\* guardrail.validate(output, context) for the draft of `request`
Answer(request, g) ==
    IF request.objector # g.name
    THEN Return(CHOOSE rs \in PassingReturns(g, request.context) : TRUE)
    ELSE IF request.objection = "raises"
         THEN Raise
         ELSE Return(CHOOSE rs \in FailingReturns(g, request.context) : TRUE)

\* what each guardrail of the pipeline answers for `request`
Answers(request) ==
    [i \in 1..Len(guardrail_pipeline) |-> Answer(request, guardrail_pipeline[i])]

\* the locals of another call's frame
frame_locals_shared(fs, c) == fs[1].locals

\* validate(), lines 86-88: all_results, blocking_guardrails and should_block
\* are locals of the call
frame_locals(fs, c) == fs[c].locals

\* generate(), lines 171-175: a request calls guardrail_pipeline.validate()
ConcurrentValidateCall ==
    /\ Len(frames) < MaxCalls
    /\ \E request \in Requests :
          frames' = Append(frames, [request |-> request,
                                    answers |-> Answers(request),
                                    fail_fast |-> TRUE,
                                    pc |-> "loop", idx |-> 1,
                                    locals |-> ValidateLocals,
                                    verdict |-> NoVerdict])
    /\ UNCHANGED <<pvars, gvars, cvars, rvars, lvars>>

\* one iteration of `for guardrail in self.guardrails` in call c
ConcurrentInvokeGuardrail ==
    /\ \E c \in 1..Len(frames) :
          /\ frames[c].pc = "loop"
          /\ frames[c].idx <= Len(guardrails)
          /\ LET frame == frames[c]
                 g == guardrails[frame.idx]
                 st == LoopBody(frame_locals(frames, c), g,
                                frame.answers[frame.idx], frame.fail_fast)
             IN frames' = [frames EXCEPT ![c] =
                             IF st.returned
                             THEN [frame EXCEPT !.locals = st, !.pc = "returned",
                                                !.verdict = st.value]
                             ELSE [frame EXCEPT !.locals = st, !.idx = @ + 1]]
    /\ UNCHANGED <<pvars, gvars, cvars, rvars, lvars>>

\* call c leaves the loop: lines 130-138
ConcurrentValidateReturn ==
    /\ \E c \in 1..Len(frames) :
          /\ frames[c].pc = "loop"
          /\ frames[c].idx > Len(guardrails)
          /\ frames' = [frames EXCEPT ![c] =
                          [@ EXCEPT !.pc = "returned",
                                    !.verdict = NormalReturn(frame_locals(frames, c))]]
    /\ UNCHANGED <<pvars, gvars, cvars, rvars, lvars>>

InitConcurrent == InitChecks

NextConcurrent ==
    \/ ConcurrentValidateCall
    \/ ConcurrentInvokeGuardrail
    \/ ConcurrentValidateReturn

SpecConcurrent == InitConcurrent /\ [][NextConcurrent]_vars

\* ------------------------------------------------------------------------
\* Properties of GuardrailPipeline.validate()
\* ------------------------------------------------------------------------
Returned == pc = "returned"

\* indices of the results that block: failed with CRITICAL or HIGH severity
BlockingIdx(results) ==
    {i \in 1..Len(results) :
        (~results[i].passed) /\ results[i].severity \in {"CRITICAL", "HIGH"}}

FailedIdx(results) == {i \in 1..Len(results) : ~results[i].passed}

Range(seq) == {seq[i] : i \in 1..Len(seq)}

\* the outcome of an invocation is a returned list with a failing CRITICAL result
ReturnsCriticalFailure(inv) ==
    /\ inv.outcome.kind = "return"
    /\ \E i \in 1..Len(inv.outcome.results) :
          /\ ~inv.outcome.results[i].passed
          /\ inv.outcome.results[i].severity = "CRITICAL"

\* C1: in every returned verdict should_block is true if and only if some
\* result is a failure of CRITICAL or HIGH severity
C1_BlockingInvariant ==
    Returned => (verdict.should_block <=> BlockingIdx(verdict.results) # {})

\* a verdict that blocks through a raising guardrail, next to passing results
C1_Witness ==
    /\ Returned
    /\ verdict.should_block
    /\ \E i \in 1..Len(invoked) : invoked[i].outcome.kind = "raise"
    /\ \E i \in 1..Len(verdict.results) : verdict.results[i].passed

\* C2: in every returned verdict all_passed is true if and only if every
\* result passed, and a verdict whose only failures are MEDIUM or LOW has
\* all_passed false and should_block false
C2_AllPassedIff ==
    Returned =>
        /\ verdict.all_passed <=> (FailedIdx(verdict.results) = {})
        /\ (/\ FailedIdx(verdict.results) # {}
            /\ \A i \in FailedIdx(verdict.results) :
                  verdict.results[i].severity \in {"MEDIUM", "LOW"})
           => (~verdict.all_passed /\ ~verdict.should_block)

\* a verdict with an advisory failure only
C2_Witness ==
    /\ Returned
    /\ ~verdict.all_passed
    /\ ~verdict.should_block
    /\ \E i \in 1..Len(verdict.results) :
          ~verdict.results[i].passed /\ verdict.results[i].severity = "MEDIUM"

\* C3: with fail_fast, an invocation that returns a failing CRITICAL result
\* is the last invocation of the call, and the call has returned a verdict
\* with should_block, not all_passed and retry_suggested
C3_FailFast ==
    fail_fast =>
        \A i \in 1..Len(invoked) :
            ReturnsCriticalFailure(invoked[i]) =>
                /\ i = Len(invoked)
                /\ Returned
                /\ verdict.should_block
                /\ ~verdict.all_passed
                /\ verdict.retry_suggested

\* fail-fast return that leaves later guardrails of the list uninvoked
C3_Witness ==
    /\ Returned
    /\ fail_fast
    /\ Len(invoked) >= 1
    /\ ReturnsCriticalFailure(invoked[Len(invoked)])
    /\ Len(invoked) < Len(guardrails)

\* a step in which the invoked guardrail raised
RaisingStep ==
    /\ pc = "loop"
    /\ Len(invoked') = Len(invoked) + 1
    /\ invoked'[Len(invoked')].outcome.kind = "raise"

\* C4: when a guardrail raises, the call appends exactly one failing HIGH
\* result with the guardrail's name, sets should_block, appends the name to
\* blocking_guardrails and continues with the next guardrail (also with
\* fail_fast); every step of a running call either returns a verdict or
\* moves on in the guardrail list, so the call ends with a verdict
C4_FaultConversion ==
    [][/\ RaisingStep =>
            LET g == guardrails[idx]
                n == Len(locals.all_results)
            IN /\ Len(locals'.all_results) = n + 1
               /\ SubSeq(locals'.all_results, 1, n) = locals.all_results
               /\ ~locals'.all_results[n + 1].passed
               /\ locals'.all_results[n + 1].guardrail_name = g.name
               /\ locals'.all_results[n + 1].severity = "HIGH"
               /\ locals'.should_block
               /\ locals'.blocking_guardrails =
                     Append(locals.blocking_guardrails, g.name)
               /\ pc' = "loop"
               /\ idx' = idx + 1
       /\ pc = "loop" =>
            \/ pc' = "returned" /\ verdict' # NoVerdict
            \/ pc' = "loop" /\ idx' = idx + 1 /\ idx' <= Len(guardrails) + 1]_vars

\* with fail_fast, a guardrail raised and a later guardrail was still invoked
C4_Witness ==
    /\ Returned
    /\ fail_fast
    /\ \E i \in 1..Len(invoked) :
          invoked[i].outcome.kind = "raise" /\ i < Len(invoked)

\* C5: a blocking verdict with at most 2 distinct names in
\* blocking_guardrails has retry_suggested
C5_RetrySuggestedDistinct ==
    Returned =>
        ((verdict.should_block
           /\ Cardinality(Range(verdict.blocking_guardrails)) <= 2)
         => verdict.retry_suggested)

\* names of the guardrails of the blocking results, in result order
RECURSIVE BlockingNames(_)
BlockingNames(results) ==
    IF Len(results) = 0 THEN <<>>
    ELSE LET r == Head(results)
         IN IF (~r.passed) /\ r.severity \in {"CRITICAL", "HIGH"}
            THEN <<r.guardrail_name>> \o BlockingNames(Tail(results))
            ELSE BlockingNames(Tail(results))

\* C6: blocking_guardrails has exactly one entry per blocking result of the
\* verdict, the producing guardrails' names in result order
C6_BlockingGuardrailsPerResult ==
    Returned => verdict.blocking_guardrails = BlockingNames(verdict.results)

\* position of a guardrail in the list the pipeline was constructed from
SuppliedOrder ==
    IF supplied = NoList THEN get_default_guardrails ELSE supplied.list

PositionIn(seq, g) == CHOOSE i \in 1..Len(seq) : seq[i] = g

\* C7: guardrails are invoked in severity order (CRITICAL, HIGH, MEDIUM,
\* LOW), and guardrails of equal severity in the order they were supplied
C7_ExecutionOrder ==
    \A i, j \in 1..Len(invoked) :
        i < j =>
            LET a == invoked[i].guardrail
                b == invoked[j].guardrail
            IN /\ severity_order(a.severity) <= severity_order(b.severity)
               /\ a.severity = b.severity =>
                     PositionIn(SuppliedOrder, a) < PositionIn(SuppliedOrder, b)

\* a list supplied with a lower severity first, both guardrails invoked
C7_Witness ==
    /\ supplied # NoList
    /\ Len(supplied.list) = 2
    /\ severity_order(supplied.list[1].severity) >
          severity_order(supplied.list[2].severity)
    /\ Len(invoked) = 2

\* ------------------------------------------------------------------------
\* Properties of DraftGenerator.generate()
\* ------------------------------------------------------------------------
MaxAttempts == MAX_GUARDRAIL_RETRIES + 1

\* position of generate() within an attempt
Rank(p) == CASE p \in {"idle", "awaiting"} -> 0
             [] p = "loop" -> 1
             [] p \in {"done", "raised"} -> 2

\* grows with every step of generate() and is at most 3 * MaxAttempts + 2
Progress == 3 * llm_calls + Rank(gpc)

\* C8: generate() makes at most MAX_GUARDRAIL_RETRIES + 1 attempts, each one
\* LLM call and one pipeline validation; an attempt is followed by another
\* exactly when its verdict has all_passed false and it was not the last
\* allowed one, otherwise generate() returns; every step advances a bounded
\* measure, so generate() always ends
C8_RetryLoop ==
    [][/\ llm_calls' <= MaxAttempts
       /\ validate_calls' <= llm_calls'
       /\ llm_calls' <= validate_calls' + 1
       /\ (llm_calls' = llm_calls + 1 /\ llm_calls >= 1) =>
            /\ validate_calls = llm_calls
            /\ guardrail_result # NoVerdict
            /\ ~guardrail_result.all_passed
            /\ llm_calls < MaxAttempts
       /\ (validate_calls' = validate_calls + 1) =>
            /\ llm_calls' = llm_calls
            /\ gpc' \in {"loop", "done"}
            /\ gpc' = "loop" <=> (/\ ~guardrail_result'.all_passed
                                  /\ validate_calls' < MaxAttempts)
       /\ gpc = "loop" => (gpc' = "awaiting" /\ llm_calls' = llm_calls + 1)
       /\ Progress' > Progress
       /\ Progress' <= 3 * MaxAttempts + 2]_vars

\* a third attempt was made and validated
C8_Witness ==
    /\ gpc = "done"
    /\ llm_calls = 3
    /\ validate_calls = 3

C10_FeedbackEnumeratesFailures ==
    (gpc = "awaiting" /\ attempt >= 1) =>
        LET n == Len(base_user_prompt)
            block == SubSeq(user_prompt, n + 1, Len(user_prompt))
            failed == guardrail_result.results
        IN /\ Len(user_prompt) > n
           /\ SubSeq(user_prompt, 1, n) = base_user_prompt
           /\ \A i \in FailedIdx(failed) :
                 /\ \E k \in 1..Len(block) :
                       block[k] = <<"-", failed[i].guardrail_name, failed[i].message>>
                 /\ failed[i].expected # None =>
                       \E k \in 1..Len(block) :
                          block[k] = <<"Expected", failed[i].expected>>
                 /\ failed[i].found # None =>
                       \E k \in 1..Len(block) :
                          block[k] = <<"Found", failed[i].found>>

\* ------------------------------------------------------------------------
\* Properties of EntityVerificationGuardrail
\* ------------------------------------------------------------------------
EntityReturned == cpc = "returned" /\ call.op = "entity_verification.validate"

AllAttemptsRaise(adjudications) ==
    \A k \in 1..MAX_RETRIES : adjudications[k].kind = "raise"

\* the first adjudicator call that answers reports both fields as valid
FirstAnswerValid(adjudications) ==
    \E k \in 1..MAX_RETRIES :
        /\ adjudications[k].kind = "answer"
        /\ \A j \in 1..(k - 1) : adjudications[j].kind = "raise"
        /\ adjudications[k].customer_code_valid
        /\ adjudications[k].party_name_valid

\* C11: when all MAX_RETRIES adjudicator attempts raise, validate() returns
\* a failing result; a returned list with no failing result (the empty list
\* included) is returned only when an adjudicator call answered and reported
\* customer code and party name as valid
C11_EntityFailsClosed ==
    EntityReturned =>
        /\ AllAttemptsRaise(call.adjudications) =>
              \E i \in 1..Len(returned) : ~returned[i].passed
        /\ (\A i \in 1..Len(returned) : returned[i].passed) =>
              FirstAnswerValid(call.adjudications)

\* every attempt raised, while the e-mail check of the same call passed
C11_Witness ==
    /\ EntityReturned
    /\ AllAttemptsRaise(call.adjudications)
    /\ Len(returned) = 2
    /\ ~returned[1].passed
    /\ returned[2].passed

\* the entity guardrail returned after its adjudicator failed on every retry
AdjudicatorExhausted(inv) ==
    /\ inv.guardrail = EntityVerificationGuardrail
    /\ inv.outcome.kind = "return"
    /\ \E i \in 1..Len(inv.outcome.results) :
          inv.outcome.results[i].message = "Entity validation failed"

\* C12: when the entity adjudicator failed on every retry, the verdict holds
\* a failing HIGH result for entity_verification and every guardrail of the
\* pipeline was run, also with fail_fast
C12_ExhaustionIsFault ==
    (Returned /\ \E i \in 1..Len(invoked) : AdjudicatorExhausted(invoked[i])) =>
        /\ \E k \in 1..Len(verdict.results) :
              /\ verdict.results[k].guardrail_name = "entity_verification"
              /\ ~verdict.results[k].passed
              /\ verdict.results[k].severity = "HIGH"
        /\ \A j \in 1..Len(guardrails) :
              \E i \in 1..Len(invoked) : invoked[i].guardrail = guardrails[j]

EmailMessages ==
    {"No email addresses to validate", "Fabricated email addresses found",
     "Unverified email addresses found", "Email addresses validated"}

\* C13: for every draft and extras, also without extracted_data, validate()
\* returns a failing e-mail result when the draft holds an e-mail address
\* other than (ignoring case) the extracted redirect e-mail, or any address
\* when there is no redirect e-mail; otherwise no e-mail result fails
C13_EmailFabricationCheck ==
    EntityReturned =>
        LET redirect == IF call.extracted_data = NoExtractedData THEN None
                        ELSE call.extracted_data.redirect_email
            fabricated == {e \in call.found_emails :
                              redirect \in {None, ""} \/ lower(e) # lower(redirect)}
            failing == {i \in 1..Len(returned) :
                           /\ returned[i].message \in EmailMessages
                           /\ ~returned[i].passed}
        IN (fabricated # {}) <=> (failing # {})

\* ------------------------------------------------------------------------
\* Properties of FactualGroundingGuardrail
\* ------------------------------------------------------------------------
AmountsReturned ==
    cpc = "returned" /\ call.op = "factual_grounding._validate_amounts"

\* each obligation's amount_due and original_amount, and the sum of amount_due
ValidAmounts(obligations) ==
    {obligations[i].amount_due : i \in 1..Len(obligations)}
    \cup {obligations[i].original_amount : i \in 1..Len(obligations)}
    \cup {total_amount_due(obligations)}

\* the amounts the returned result lists as invalid
ListedInvalid == IF returned.passed THEN {} ELSE Range(returned.found)

\* found amount k is less than 0.01 away from some valid amount
NearValid(k) ==
    \E v \in ValidAmounts(call.obligations) : abs(call.found_amounts[k] - v) < 10

\* found amount k is 0.02 or more away from every valid amount
FarFromValid(k) ==
    \A v \in ValidAmounts(call.obligations) : abs(call.found_amounts[k] - v) >= 20

\* found amount k is the whole-number part of some valid amount
TruncatedValid(k) ==
    \E v \in ValidAmounts(call.obligations) :
        call.found_amounts[k] = (v \div 1000) * 1000

\* C15 as claimed: a found amount less than 0.01 from some valid amount is
\* not reported, and a found amount 0.02 or more from every valid amount
\* makes the check fail and is listed in invalid_amounts
C15_AmountTolerance ==
    AmountsReturned =>
        \A k \in 1..Len(call.found_amounts) :
            /\ NearValid(k) => call.found_amounts[k] \notin ListedInvalid
            /\ FarFromValid(k) =>
                  (~returned.passed /\ call.found_amounts[k] \in ListedInvalid)

\* C15 amended: a found amount less than 0.01 from some valid amount is not
\* reported (the check passes when every found amount is so), and a found
\* amount 0.02 or more from every valid amount that is not the whole-number
\* part of a valid amount makes the check fail and is listed in
\* invalid_amounts
C15_AmountToleranceAmended ==
    AmountsReturned =>
        /\ \A k \in 1..Len(call.found_amounts) :
              /\ NearValid(k) => call.found_amounts[k] \notin ListedInvalid
              /\ (FarFromValid(k) /\ ~TruncatedValid(k)) =>
                    (~returned.passed /\ call.found_amounts[k] \in ListedInvalid)
        /\ (\A k \in 1..Len(call.found_amounts) : NearValid(k)) => returned.passed

\* a draft with an amount 0.009 below a valid amount, which is accepted, and
\* an amount 0.021 above it, which is listed
C15_Witness ==
    /\ AmountsReturned
    /\ ~returned.passed
    /\ \E k, j \in 1..Len(call.found_amounts) :
          /\ \E v \in ValidAmounts(call.obligations) : v - call.found_amounts[k] = 9
          /\ ~TruncatedValid(k)
          /\ call.found_amounts[k] \notin ListedInvalid
          /\ FarFromValid(j)
          /\ call.found_amounts[j] \in ListedInvalid

\* ------------------------------------------------------------------------
\* Properties of NumericalConsistencyGuardrail
\* ------------------------------------------------------------------------
NumericalReturned ==
    cpc = "returned" /\ call.op = "numerical_consistency.validate"

\* each obligation's days_past_due and their maximum (0 for no obligation)
ValidDays(obligations) ==
    LET days == {obligations[i].days_past_due : i \in 1..Len(obligations)}
    IN IF days = {} THEN {0} ELSE days

\* C16: for every mentioned day count N >= 0 and every obligation list, a
\* mention with |N - d| <= 1 for some valid d is not reported, and a mention
\* with |N - d| >= 2 for every valid d makes the days-overdue check fail
C16_DaysOverdueTolerance ==
    NumericalReturned =>
        LET days_result == returned[2]
            valid == ValidDays(call.obligations)
        IN \A k \in 1..Len(call.mentioned) :
              LET N == call.mentioned[k]
              IN /\ (\E d \in valid : abs(N - d) <= 1) =>
                       (days_result.passed \/ days_result.found # N)
                 /\ (\A d \in valid : abs(N - d) >= 2) => ~days_result.passed

\* ------------------------------------------------------------------------
\* Properties of TemporalConsistencyGuardrail
\* ------------------------------------------------------------------------
TemporalReturned ==
    cpc = "returned" /\ call.op = "temporal_consistency.validate"

\* the due dates of the obligations that are ISO dates
ValidDueDates(obligations) ==
    {obligations[i].due_date.day :
        i \in {j \in 1..Len(obligations) :
                  obligations[j].due_date.format = "%Y-%m-%d"}}

\* the mentions the guardrail reads as dates (mentioned_dates)
MentionedDates(mentions) ==
    {mentions[k].day : k \in {j \in 1..Len(mentions) : parse_date(mentions[j]) # NoDate}}

C18_PromiseDateBoundaries ==
    (/\ TemporalReturned
     /\ call.extracted_data # NoExtractedData
     /\ call.extracted_data.promise_date # NoDate) =>
        LET promise_result == returned[1]
            delta == call.extracted_data.promise_date.day - call.today
        IN /\ Len(returned) = 2
           /\ promise_result.passed <=> (0 <= delta /\ delta <= 90)
           /\ delta < 0 =>
                 /\ promise_result.message = "Promise date is in the past"
                 /\ promise_result.details.days_past = -delta
                 /\ promise_result.details.days_past >= 1
           /\ delta > 90 =>
                 /\ promise_result.message = "Promise date is in future (unusual)"
                 /\ promise_result.details.days_future = delta
           /\ ~promise_result.passed =>
                 /\ promise_result.severity = "HIGH"
                 /\ piped.should_block
                 /\ ~piped.all_passed
                 /\ "temporal_consistency" \in Range(piped.blocking_guardrails)

\* a promise 91 days ahead blocks a draft whose due dates are fine
C18_Witness ==
    /\ TemporalReturned
    /\ call.extracted_data # NoExtractedData
    /\ call.extracted_data.promise_date # NoDate
    /\ call.extracted_data.promise_date.day = call.today + 91
    /\ ~returned[1].passed
    /\ returned[2].passed
    /\ piped.should_block

\* ------------------------------------------------------------------------
\* Properties of FactualGroundingGuardrail._validate_invoice_numbers
\* ------------------------------------------------------------------------
FactualReturned ==
    cpc = "returned" /\ call.op = "factual_grounding.validate"

\* the identifiers extracted from the draft, upper-cased
ExtractedIdentifiers(mentions, obligations) ==
    {upper(obligations[i].invoice_number) :
        i \in {j \in 1..Len(obligations) :
                  \E m \in mentions :
                      contains(upper(m.prefix \o m.capture),
                               upper(obligations[j].invoice_number))}}
    \cup {upper(c) : c \in UNION {invoice_pattern_matches(m) : m \in mentions}}

\* the invoice numbers of the obligations and their numeric portions
GroundedIdentifiers(obligations) ==
    LET valid == {upper(obligations[i].invoice_number) : i \in 1..Len(obligations)}
    IN valid \cup UNION {first_digit_run(inv) : inv \in valid}

\* C19: the invoice check passes exactly when every extracted identifier
\* equals, ignoring case, an obligation's invoice_number or the numeric
\* portion of one; otherwise it fails and lists exactly the other
\* identifiers; a draft mentioning no invoice passes, and a fabricated
\* invoice makes the pipeline block with factual_grounding in
\* blocking_guardrails
C19_InvoiceGrounding ==
    FactualReturned =>
        LET invoice_result == returned[1]
            fabricated == ExtractedIdentifiers(call.mentions, call.obligations)
                          \ GroundedIdentifiers(call.obligations)
        IN /\ invoice_result.passed <=> fabricated = {}
           /\ ~invoice_result.passed => invoice_result.found = fabricated
           /\ call.mentions = {} => invoice_result.passed
           /\ fabricated # {} =>
                 /\ piped.should_block
                 /\ "factual_grounding" \in Range(piped.blocking_guardrails)

\* ------------------------------------------------------------------------
\* Properties of the five guardrails' validate()
\* ------------------------------------------------------------------------
ValidateOps ==
    {"factual_grounding.validate", "numerical_consistency.validate",
     "entity_verification.validate", "temporal_consistency.validate",
     "contextual_coherence.validate"}

ValidateReturned == cpc = "returned" /\ call.op \in ValidateOps

ContextualReturned ==
    cpc = "returned" /\ call.op = "contextual_coherence.validate"

InvoiceMessages ==
    {"All invoice numbers validated", "Invoice numbers not found in context"}

AmountMessages ==
    {"All monetary amounts validated", "Amounts not found in context"}

TotalMessages ==
    {"Total calculations validated",
     "Stated total does not match calculated total"}

DaysOverdueMessages ==
    {"Days overdue calculations validated", "Days overdue not found in context"}

\* C14: every validate() of the five guardrails that returns, returns at
\* least one result, each carrying the guardrail's name; factual grounding
\* returns exactly the invoice result then the amount result, numerical
\* consistency exactly the total result then the days-overdue result
C14_AtLeastOneResult ==
    ValidateReturned =>
        /\ Len(returned) >= 1
        /\ \A i \in 1..Len(returned) :
              returned[i].guardrail_name \o ".validate" = call.op
        /\ call.op = "factual_grounding.validate" =>
              /\ Len(returned) = 2
              /\ returned[1].message \in InvoiceMessages
              /\ returned[2].message \in AmountMessages
        /\ call.op = "numerical_consistency.validate" =>
              /\ Len(returned) = 2
              /\ returned[1].message \in TotalMessages
              /\ returned[2].message \in DaysOverdueMessages

\* an empty draft against a context with no case-state flag: the contextual
\* guardrail returns its single pass
C14_Witness ==
    /\ ContextualReturned
    /\ call.output = {}
    /\ ~call.context.active_dispute
    /\ ~call.context.hardship_indicated
    /\ call.context.broken_promises_count = 0
    /\ Len(returned) = 1
    /\ returned[1].passed

\* ------------------------------------------------------------------------
\* Properties of the contextual guardrail in the pipeline
\* ------------------------------------------------------------------------
\* C20: in every pipeline verdict no result of contextual_coherence has
\* should_block, contextual_coherence is not in blocking_guardrails, and a
\* verdict whose only failures are contextual has all_passed = false and
\* should_block = false, whether the guardrail passed, failed or raised
C20_ContextualNeverBlocks ==
    Returned =>
        LET contextual == {k \in 1..Len(verdict.results) :
                              verdict.results[k].guardrail_name = "contextual_coherence"}
            failed == {k \in 1..Len(verdict.results) : ~verdict.results[k].passed}
        IN /\ \A k \in contextual : ~result_should_block(verdict.results[k])
           /\ "contextual_coherence" \notin Range(verdict.blocking_guardrails)
           /\ (failed # {} /\ failed \subseteq contextual) =>
                 (~verdict.all_passed /\ ~verdict.should_block)

\* ------------------------------------------------------------------------
\* Properties of the verdict's fields
\* ------------------------------------------------------------------------
\* C28: in every verdict returned by validate(), should_block holds exactly
\* when blocking_guardrails is not empty, retry_suggested implies
\* should_block, and all_passed implies that should_block is false and
\* blocking_guardrails is empty
C28_VerdictFieldsAgree ==
    Returned =>
        /\ verdict.should_block <=> verdict.blocking_guardrails # <<>>
        /\ verdict.retry_suggested => verdict.should_block
        /\ verdict.all_passed =>
              (~verdict.should_block /\ verdict.blocking_guardrails = <<>>)

\* a verdict that blocks on three entries and does not suggest a retry
C28_Witness ==
    /\ Returned
    /\ verdict.should_block
    /\ Len(verdict.blocking_guardrails) >= 3
    /\ ~verdict.retry_suggested
    /\ ~verdict.all_passed

\* ------------------------------------------------------------------------
\* Properties of the adjudicator retry loop
\* ------------------------------------------------------------------------
\* the attempts of a run that are made and fail: those before the first
\* answering one
FailedAttempts(adjudications) ==
    {k \in 1..MAX_RETRIES : \A j \in 1..k : adjudications[j].kind = "raise"}

RECURSIVE SumSeq(_)
SumSeq(seq) == IF seq = <<>> THEN 0 ELSE Head(seq) + SumSeq(Tail(seq))

\* C24: one validate() call makes at least one and at most MAX_RETRIES
\* adjudicator calls and none after the first that answers; it sleeps
\* INITIAL_BACKOFF_SECONDS * 2^(k-1) after failed attempt k < MAX_RETRIES
\* and not after the last attempt, so it returns after waiting 3 seconds at
\* most
C24_BoundedAdjudicatorRetries ==
    EntityReturned =>
        LET failed == FailedAttempts(call.adjudications)
        IN /\ call.adjudicator_calls \in 1..MAX_RETRIES
           /\ call.adjudicator_calls =
                 IF Cardinality(failed) = MAX_RETRIES
                 THEN MAX_RETRIES ELSE Cardinality(failed) + 1
           /\ DOMAIN call.sleeps = failed \ {MAX_RETRIES}
           /\ \A k \in DOMAIN call.sleeps :
                 call.sleeps[k] = INITIAL_BACKOFF_SECONDS * (2 ^ (k - 1))
           /\ SumSeq(call.sleeps) <= 3 * INITIAL_BACKOFF_SECONDS

\* three failed attempts: three calls, sleeps of 1 s and 2 s, none after the
\* third
C24_Witness ==
    /\ EntityReturned
    /\ AllAttemptsRaise(call.adjudications)
    /\ call.adjudicator_calls = 3
    /\ call.sleeps = <<1, 2>>

\* the attempt of a run that answers first, 0 when every attempt raises
FirstAnswer(adjudications) ==
    IF AllAttemptsRaise(adjudications) THEN 0
    ELSE CHOOSE k \in 1..MAX_RETRIES :
            /\ adjudications[k].kind = "answer"
            /\ \A j \in 1..(k - 1) : adjudications[j].kind = "raise"

\* C29: validate() returns either exactly the two adjudication results of
\* the one successful attempt, customer code then party name, or exactly one
\* failing result when every attempt failed, followed by at most one e-mail
\* result; after a success no 'Entity validation failed' result is in the
\* list
C29_NoLeakFromFailedAttempts ==
    EntityReturned =>
        LET k == FirstAnswer(call.adjudications)
            head == IF k = 0 THEN 1 ELSE 2
        IN /\ Len(returned) \in {head, head + 1}
           /\ k # 0 =>
                 /\ returned[1].message = "customer_code_reason"
                 /\ returned[1].passed = call.adjudications[k].customer_code_valid
                 /\ returned[2].message = "party_name_reason"
                 /\ returned[2].passed = call.adjudications[k].party_name_valid
                 /\ \A i \in 1..Len(returned) :
                       returned[i].message # "Entity validation failed"
           /\ k = 0 =>
                 /\ returned[1].message = "Entity validation failed"
                 /\ ~returned[1].passed
           /\ Len(returned) = head + 1 =>
                 returned[head + 1].message \in EmailMessages

\* two failed attempts, then an answer: only its two results and the e-mail
\* result are returned
C29_Witness ==
    /\ EntityReturned
    /\ FirstAnswer(call.adjudications) = 3
    /\ Len(returned) = 3
    /\ returned[1].passed
    /\ ~returned[2].passed
    /\ returned[3].message \in EmailMessages

\* ------------------------------------------------------------------------
\* Properties of ContextualCoherenceGuardrail.validate
\* ------------------------------------------------------------------------
\* the draft contains one of the phrases
Mentions(output, phrases) ==
    \E phrase \in phrases : phrase_in(phrase, output_lower(output))

\* where the promise result is in the returned list
PromiseIdx(ctx) ==
    (IF ctx.active_dispute THEN 1 ELSE 0)
    + (IF ctx.hardship_indicated THEN 1 ELSE 0) + 1

C23_RetryOnlyWhenBlocking ==
    /\ (gpc = "loop" /\ guardrail_result # NoVerdict) =>
          guardrail_result.should_block
    /\ (/\ gpc = "done"
        /\ ~guardrail_result.all_passed
        /\ ~guardrail_result.should_block) =>
          response.guardrail_validation.warnings # <<>>

\* the call in flight ends with the pipeline run on the parsed draft or with
\* an error
AwaitEnds ==
    gpc = "awaiting" =>
        \/ /\ validate_calls' = validate_calls + 1
           /\ validated_output' = llm_calls
           /\ llm_calls' = llm_calls
        \/ /\ gpc' = "raised"
           /\ validate_calls' = validate_calls
           /\ llm_calls' = llm_calls

\* C27: an LLM response of any attempt that is not extractable JSON or
\* fails the schema makes generate() raise LLMResponseInvalidError at once:
\* the pipeline is not run on it, no further LLM call is made and no
\* GenerateDraftResponse is returned, also after an earlier parsed draft
C27_InvalidResponseRaisesAtOnce ==
    /\ [](gpc = "raised" =>
            /\ response.kind \in {"LLMResponseInvalidError", "LLMError"}
            /\ validate_calls = llm_calls - 1
            /\ llm_calls = attempt + 1)
    /\ [][AwaitEnds /\ gpc # "raised"]_vars

\* the second attempt's response is unusable: the error is raised although
\* the first attempt's draft was parsed and validated
C27_Witness ==
    /\ gpc = "raised"
    /\ response.kind = "LLMResponseInvalidError"
    /\ attempt >= 1
    /\ result # NoDraft
    /\ validate_calls = attempt

\* ------------------------------------------------------------------------
\* Properties of the entity check when generate() runs the pipeline
\* ------------------------------------------------------------------------
GenerateEntityReturned ==
    cpc = "returned" /\ call.op = "generate.entity_verification.validate"

\* C26: when generate() invokes the pipeline, the entity guardrail does not
\* run on a thread that is running an event loop, and when the adjudicator
\* would answer 'valid' the entity check returns passing results
C26_EntityCheckOffTheEventLoop ==
    GenerateEntityReturned =>
        /\ ~call.thread.running_loop
        /\ FirstAnswerValid(call.would_answer) =>
              \A i \in 1..Len(returned) : returned[i].passed

\* ------------------------------------------------------------------------
\* Properties of LLMProviderWithFallback.complete
\* ------------------------------------------------------------------------
Completed == completion # NoCompletion /\ completion.op = "complete"

\* the primary provider was called and failed
PrimaryFailed == completion.primary_calls = 1 /\ completion.primary_does = "fails"

\* C30: complete() returns the primary's response when the primary
\* succeeds; when the primary fails the fallback is called at most once and
\* fallback_count grows by exactly one per such call; when the primary fails
\* and the fallback provider cannot be constructed, the fallback is disabled
\* and complete() raises the primary's error with fallback_count unchanged
C30_FallbackDegradesGracefully ==
    Completed =>
        LET before == completion.before
            unconstructible ==
                /\ before.fallback = NoProvider
                /\ before.fallback_provider_name # None
                /\ construct(before.fallback_provider_name, settings).kind = "raise"
        IN /\ (completion.primary_calls = 1 /\ completion.primary_does = "responds") =>
                 /\ completion.result =
                       Returns([provider |-> before.primary_provider_name])
                 /\ completion.fallback_calls = 0
                 /\ llm_client.fallback_count = before.fallback_count
           /\ PrimaryFailed =>
                 /\ completion.fallback_calls \in {0, 1}
                 /\ llm_client.fallback_count =
                       before.fallback_count + completion.fallback_calls
           /\ (PrimaryFailed /\ unconstructible) =>
                 /\ ~fallback_enabled(llm_client)
                 /\ completion.result = Raises("primary error")
                 /\ llm_client.fallback_count = before.fallback_count

\* ------------------------------------------------------------------------
\* Properties of validate() run twice
\* ------------------------------------------------------------------------
RanTwice == pc = "returned" /\ previous # NoRun

\* C21: validate() leaves the pipeline's guardrail list, its order and the
\* call's inputs as they were, and a second run on the same inputs with
\* guardrails answering the same way returns a verdict equal to the first;
\* an accepted draft is accepted again
C21_Idempotence ==
    /\ [](RanTwice =>
            /\ verdict = previous.verdict
            /\ invoked = previous.invoked
            /\ previous.verdict.all_passed => verdict.all_passed)
    /\ [][/\ guardrails' = guardrails
          /\ supplied' = supplied
          /\ context' = context]_vars

\* a draft accepted by both runs of the default pipeline
C21_Witness ==
    /\ RanTwice
    /\ supplied = NoList
    /\ previous.verdict.all_passed
    /\ verdict.all_passed
    /\ Len(verdict.results) >= 5

\* ------------------------------------------------------------------------
\* Properties of concurrent validate() calls
\* ------------------------------------------------------------------------
\* validate() on the shared pipeline with no other call in progress, the
\* guardrails answering `answers`
RECURSIVE ValidateAlone(_, _, _)
ValidateAlone(st, answers, i) ==
    IF st.returned THEN st.value
    ELSE IF i > Len(guardrails) THEN NormalReturn(st)
    ELSE ValidateAlone(LoopBody(st, guardrails[i], answers[i], TRUE),
                       answers, i + 1)

FrameReturned(c) == c \in 1..Len(frames) /\ frames[c].pc = "returned"

\* C22: whatever the interleaving of the calls on the shared pipeline, the
\* verdict a call returns (results, blocking_guardrails, should_block,
\* all_passed) is the verdict its request gets when it runs alone
C22_ConcurrentCallsDoNotInterfere ==
    \A c \in 1..Len(frames) :
        frames[c].pc = "returned" =>
            frames[c].verdict = ValidateAlone(ValidateLocals, frames[c].answers, 1)

\* two calls ran interleaved, one accepted and one blocked with other results
C22_Witness ==
    /\ Len(frames) >= 2
    /\ FrameReturned(1)
    /\ FrameReturned(2)
    /\ frames[1].verdict.should_block
    /\ frames[1].verdict.blocking_guardrails # <<>>
    /\ frames[2].verdict.all_passed
    /\ frames[2].verdict.blocking_guardrails = <<>>
    /\ Len(frames[2].verdict.results) > Len(frames[1].verdict.results)

====
